---- MODULE Spec2Model ----
(***************************************************************************)
(* Model of the Pokemon search frontend (src/web/web_app.py): the request  *)
(* handlers of PokemonSearchApp, split at the points where they talk to    *)
(* the index (Solr), with the index's replies as nondeterministic inputs.  *)
(*                                                                         *)
(* The index itself is either left open (any reply is possible) or known:  *)
(* the documents the normalizer (src/data_processor.py) produced, against  *)
(* which the classification probes are evaluated.                          *)
(*                                                                         *)
(* Strings are sequences of one-character strings, so that strip, lower,   *)
(* title and capitalize are computed as Python computes them.  A literal   *)
(* fragment of an f-string is one element of the sequence.                 *)
(***************************************************************************)
EXTENDS Integers, Sequences, FiniteSets, TLC

VARIABLES
    pc,              \* position of the handler: idle, the next I/O step, or done
    handler,         \* which route is being served: none, search, autocomplete
    args,            \* request.args of the request being served
    query,           \* local `query`
    start,           \* local `start` (parsed)
    rows,            \* local `rows` (parsed and capped)
    filters,         \* local `filters` (list of fq strings)
    is_ability,      \* local `is_ability`
    is_type,         \* local `is_type`
    classification,  \* which branch of the query strategy was taken
    results,         \* the main query's reply, once it has succeeded
    suggestions,     \* local `suggestions`
    spellcheck_data, \* local `spellcheck_data`, once the lookup has answered JSON
    sent,            \* the requests sent to the index while serving, in order
    outcomes,        \* what the index answered to each of them, in order
    response,        \* the response returned, once there is one
    replies,         \* what the autocomplete lookups answered, in order
    ref,             \* summary of an earlier search request (pair checks only)
    index,           \* the documents in the index, when they are known
    program,         \* which script runs: none, main (src/main.py), fetcher_v2, or one call
    ipc,             \* position of the ingestion run
    field_index,     \* setup_solr_schema: index of the next field of fields_to_configure
    all_successful,  \* setup_solr_schema of fetcher_v2: local `all_successful`
    schema_result,   \* what setup_solr_schema returned, once it has
    cleared,         \* how often the whole index has been deleted
    gen_index,       \* position of the pass in the declared generation ranges
    pokemon_id,      \* loop variable `pokemon_id`
    fetched_basic,   \* local `basic_data`, once fetched
    url,             \* fetch_with_retry: argument `url`
    max_retries,     \* fetch_with_retry: argument `max_retries`
    attempt,         \* fetch_with_retry: loop variable `attempt`
    upstream,        \* what each GET of the call met: ok, or the exception class
    fetched,         \* how fetch_with_retry ended, once it has
    attempted,       \* the ids the pass has started on, in order
    all_documents,   \* local `all_documents` / argument `documents`
    batch_start,     \* index_documents: loop variable `i`
    submitted,       \* the batches handed to solr.add, in order
    optimized,       \* the outcomes of the calls of solr.optimize
    run_result       \* what index_documents / the run returned, once it has

webVars == <<pc, handler, args, query, start, rows, filters, is_ability, is_type,
             classification, results, suggestions, spellcheck_data, sent, outcomes,
             response, replies, ref>>

ingestVars == <<index, program, ipc, field_index, all_successful, schema_result, cleared,
                gen_index, pokemon_id, fetched_basic, url, max_retries, attempt, upstream,
                fetched, attempted, all_documents, batch_start, submitted, optimized,
                run_result>>

vars == <<webVars, ingestVars>>

(***************************************************************************)
(* Bounds of the model.                                                    *)
(***************************************************************************)
MaxQueryLen == 4
MaxCollations == 2
MaxRetriesArg == 4
MaxGenerations == 2
MaxIdsPerGeneration == 2
MaxDocuments == 101
MaxTextLen == 4

(***************************************************************************)
(* Optional values (Python None / a missing request argument).             *)
(***************************************************************************)
None == {}
Some(x) == {x}
Get(o) == CHOOSE x \in o : TRUE
Option(S) == {None} \cup {Some(x) : x \in S}

(***************************************************************************)
(* Python str methods, on sequences of characters.                         *)
(***************************************************************************)
ToUpper ==
    ("a" :> "A") @@ ("b" :> "B") @@ ("c" :> "C") @@ ("d" :> "D") @@ ("e" :> "E") @@
    ("f" :> "F") @@ ("g" :> "G") @@ ("h" :> "H") @@ ("i" :> "I") @@ ("j" :> "J") @@
    ("k" :> "K") @@ ("l" :> "L") @@ ("m" :> "M") @@ ("n" :> "N") @@ ("o" :> "O") @@
    ("p" :> "P") @@ ("q" :> "Q") @@ ("r" :> "R") @@ ("s" :> "S") @@ ("t" :> "T") @@
    ("u" :> "U") @@ ("v" :> "V") @@ ("w" :> "W") @@ ("x" :> "X") @@ ("y" :> "Y") @@
    ("z" :> "Z")

IsLower(c) == c \in DOMAIN ToUpper
IsUpper(c) == \E l \in DOMAIN ToUpper : ToUpper[l] = c
IsCased(c) == IsLower(c) \/ IsUpper(c)
\* str.isspace() of one character (the ASCII whitespace Python strips)
\* the vertical tab and the no-break space, written as tokens
VT == "VT"
NBSP == "NBSP"

IsSpace(c) == c \in {" ", "\t", "\n", "\r", "\f", VT, NBSP}

upper_char(c) == IF IsLower(c) THEN ToUpper[c] ELSE c
lower_char(c) == IF IsUpper(c) THEN CHOOSE l \in DOMAIN ToUpper : ToUpper[l] = c ELSE c

str_lower(s) == [i \in 1..Len(s) |-> lower_char(s[i])]

RECURSIVE lstrip(_)
lstrip(s) == IF s # <<>> /\ IsSpace(Head(s)) THEN lstrip(Tail(s)) ELSE s

RECURSIVE rstrip(_)
rstrip(s) == IF s # <<>> /\ IsSpace(s[Len(s)]) THEN rstrip(SubSeq(s, 1, Len(s) - 1)) ELSE s

str_strip(s) == rstrip(lstrip(s))

\* str.title(): a cased character is upper-cased when the character before
\* it is not cased (or there is none), lower-cased otherwise
str_title(s) ==
    [i \in 1..Len(s) |->
        IF i = 1 \/ ~IsCased(s[i - 1]) THEN upper_char(s[i]) ELSE lower_char(s[i])]

\* str.capitalize(): first character upper-cased, the rest lower-cased
str_capitalize(s) ==
    [i \in 1..Len(s) |-> IF i = 1 THEN upper_char(s[i]) ELSE lower_char(s[i])]

\* x in s, for a one-character x
HasChar(s, c) == \E i \in 1..Len(s) : s[i] = c

\* s.startswith(p)
str_startswith(s, p) == Len(p) <= Len(s) /\ SubSeq(s, 1, Len(p)) = p

\* p in s, for strings
str_contains(s, p) ==
    \E i \in 0..(Len(s) - Len(p)) : SubSeq(s, i + 1, i + Len(p)) = p

\* int(s) for the decimal strings of the model; anything else raises ValueError
Digits == ("0" :> 0) @@ ("1" :> 1) @@ ("2" :> 2) @@ ("5" :> 5)

IsInt(s) == s # <<>> /\ \A i \in 1..Len(s) : s[i] \in DOMAIN Digits

RECURSIVE int(_)
int(s) == IF s = <<>> THEN 0 ELSE 10 * int(SubSeq(s, 1, Len(s) - 1)) + Digits[s[Len(s)]]

Min(a, b) == IF a <= b THEN a ELSE b

RECURSIVE StringsUpTo(_, _)
StringsUpTo(alphabet, n) ==
    IF n = 0 THEN {<<>>}
    ELSE LET shorter == StringsUpTo(alphabet, n - 1)
         IN  shorter \cup {Append(s, c) : s \in {t \in shorter : Len(t) = n - 1}, c \in alphabet}

(***************************************************************************)
(* The inputs: request arguments and the index's replies.                  *)
(***************************************************************************)
Alphabet == {"a", "A", " ", "\t"}

\* the literal '*:*'
MatchAll == <<"*", ":", "*">>

Queries == StringsUpTo(Alphabet, MaxQueryLen) \cup {MatchAll}

\* the queries that are combined with every filter, page and spellcheck reply
FewQueries == {<<>>, <<" ">>, MatchAll, <<"a", "A">>, <<"a", " ", "A", "a">>}

\* every way to write the word w in upper and lower case
CaseVariants(w) ==
    {[i \in 1..Len(w) |-> IF i \in S THEN upper_char(w[i]) ELSE w[i]] :
        S \in SUBSET (1..Len(w))}

TrueLike == {<<"t", "r", "u", "e">>, <<"1">>, <<"y", "e", "s">>}

LegendaryValues ==
    UNION {CaseVariants(w) : w \in TrueLike}
    \cup {<<>>, <<"f", "a", "l", "s", "e">>, <<"n", "o">>, <<"0">>, <<" ", "1">>,
          <<"t", "r", "u">>, <<"o", "n">>}

GenerationValues == {<<>>, <<"1">>}
TypeValues == {<<"F", "i", "r", "e">>}
AbilityValues == {<<"B", "l", "a", "z", "e">>}
PageValues == {<<"0">>, <<"5">>, <<"1", "0", "0">>, <<"1", "5", "0">>, <<"x">>, <<>>}
SortValues == {<<"total_stats">>}
OrderValues == {<<"desc">>}

NoArgs ==
    [q |-> None, start |-> None, rows |-> None, sort |-> None, order |-> None,
     generation |-> None, type |-> None, ability |-> None, legendary |-> None]

\* every query, with no other argument
QuerySlice == {[NoArgs EXCEPT !.q = q] : q \in Option(Queries)}

\* a few queries, with every combination of filters
FilterSlice ==
    {[NoArgs EXCEPT !.q = q, !.generation = g, !.type = t, !.ability = a, !.legendary = l] :
        q \in {None, Some(<<"a", "A">>)},
        g \in Option(GenerationValues), t \in Option(TypeValues),
        a \in Option(AbilityValues), l \in Option(LegendaryValues)}

\* a few queries, with every combination of page and sort arguments
PageSlice ==
    {[NoArgs EXCEPT !.q = q, !.start = s, !.rows = r, !.sort = f, !.order = o] :
        q \in {None, Some(<<"a", "A">>)},
        s \in Option({<<"5">>, <<"x">>}), r \in Option(PageValues),
        f \in Option(SortValues), o \in Option(OrderValues)}

SpellSlice == {[NoArgs EXCEPT !.q = Some(q)] : q \in FewQueries}

SearchRequests == QuerySlice \cup FilterSlice \cup PageSlice

\* the filter arguments of the pair checks: none, one, several, an empty one, all
PairFilters ==
    {[generation |-> None, type |-> None, ability |-> None, legendary |-> None],
     [generation |-> Some(<<"1">>), type |-> None, ability |-> None, legendary |-> None],
     [generation |-> None, type |-> Some(<<"F", "i", "r", "e">>), ability |-> None,
      legendary |-> Some(<<"Y", "e", "s">>)],
     [generation |-> Some(<<>>), type |-> None,
      ability |-> Some(<<"B", "l", "a", "z", "e">>), legendary |-> None],
     [generation |-> Some(<<"1">>), type |-> Some(<<"F", "i", "r", "e">>),
      ability |-> Some(<<"B", "l", "a", "z", "e">>), legendary |-> Some(<<"n", "o">>)]}

\* the requests of the pair checks
PairRequests ==
    {[NoArgs EXCEPT !.q = q, !.generation = f.generation, !.type = f.type,
                    !.ability = f.ability, !.legendary = f.legendary] :
        q \in {None, Some(<<" ", "\t">>), Some(MatchAll), Some(<<"a", "A">>),
               Some(<<"a", " ", "A", "a">>)},
        f \in PairFilters}

(***************************************************************************)
(* DataProcessor.process_pokemon_data (src/data_processor.py): one record  *)
(* of the upstream API, with the species record when there is one, becomes *)
(* one flat document.                                                      *)
(***************************************************************************)
\* str.replace(old, new), for one-character old and new
str_replace(s, old, new) == [i \in 1..Len(s) |-> IF s[i] = old THEN new ELSE s[i]]

DigitChars == <<"0", "1", "2", "3", "4", "5", "6", "7", "8", "9">>

\* str(n), for a non-negative integer
RECURSIVE str_of_int(_)
str_of_int(n) ==
    IF n < 10 THEN <<DigitChars[n + 1]>>
    ELSE Append(str_of_int(n \div 10), DigitChars[(n % 10) + 1])

\* a variant that only replaces the hyphens
ability_name_untitled(name) == str_replace(name, "-", " ")

\* ability_info['ability']['name'].replace('-', ' ').title()
ability_name(name) == str_title(str_replace(name, "-", " "))

\* the abilities of the record with the given is_hidden flag, normalized
RECURSIVE abilities_where(_, _)
abilities_where(infos, hidden) ==
    IF infos = <<>> THEN <<>>
    ELSE (IF Head(infos).is_hidden = hidden THEN <<ability_name(Head(infos).name)>> ELSE <<>>)
         \o abilities_where(Tail(infos), hidden)

\* lines 141-145: the generation of an id
generation_of(id) ==
    IF 152 <= id /\ id <= 251 THEN 2
    ELSE IF 252 <= id /\ id <= 386 THEN 3
    ELSE 1

\* re.sub(pattern + '+', ' ', s), for a pattern that is a class of characters:
\* every maximal run of characters of the class becomes one space
RECURSIVE re_sub_runs(_, _)
re_sub_runs(class, s) ==
    IF s = <<>> THEN <<>>
    ELSE IF Head(s) \in class
         THEN LET rest == re_sub_runs(class, Tail(s))
              IN  IF Tail(s) # <<>> /\ s[2] \in class THEN rest ELSE <<" ">> \o rest
         ELSE <<Head(s)>> \o re_sub_runs(class, Tail(s))

\* [\n\f\r\t] and \s
ControlSpaces == {"\n", "\f", "\r", "\t"}
WhiteSpace == {" ", "\t", "\n", "\r", "\f", VT, NBSP}

\* a variant without the final strip
clean_text_unstripped(text) ==
    IF text = <<>> THEN <<>>
    ELSE re_sub_runs(WhiteSpace, re_sub_runs(ControlSpaces, text))

\* DataProcessor.clean_text
clean_text(text) ==
    IF text = <<>> THEN <<>>
    ELSE str_strip(re_sub_runs(WhiteSpace, re_sub_runs(ControlSpaces, text)))

\* the loop of extract_flavor_texts over the entries: English ones, cleaned,
\* the empty and the repeated ones left out
RECURSIVE flavor_texts(_, _)
flavor_texts(entries, seen_texts) ==
    IF entries = <<>> THEN <<>>
    ELSE LET text == clean_text(Head(entries).flavor_text)
         IN  IF Head(entries).language = "en" /\ text # <<>> /\ text \notin seen_texts
             THEN <<text>> \o flavor_texts(Tail(entries), seen_texts \cup {text})
             ELSE flavor_texts(Tail(entries), seen_texts)

\* ' '.join(parts)
RECURSIVE join_spaced(_)
join_spaced(parts) ==
    IF parts = <<>> THEN <<>>
    ELSE IF Len(parts) = 1 THEN parts[1]
    ELSE parts[1] \o <<" ">> \o join_spaced(Tail(parts))

\* DataProcessor.extract_flavor_texts
extract_flavor_texts(species_data) == join_spaced(flavor_texts(species_data.flavor_text_entries, {}))

\* a variant that writes the species fields with defaults when there is no
\* species record
species_block_entered_always(species_data) == TRUE

\* if species_data:
species_block_entered(species_data) == species_data # None

\* the value of a species field of the document: absent outside the block
species_field(species_data, value) ==
    IF species_block_entered(species_data) THEN Some(value) ELSE None

\* basic_data['id'] and basic_data['name'] raise KeyError when the key is missing
normalizer_raises(basic_data) == basic_data.id = None \/ basic_data.name = None

\* a species record as the upstream API serves it
PlainSpecies ==
    [color |-> <<"r", "e", "d">>, habitat |-> Some(<<"m", "o", "u", "n", "t", "a", "i", "n">>),
     is_legendary |-> FALSE, is_mythical |-> FALSE,
     flavor_text_entries |->
        << [language |-> "en", flavor_text |-> <<"a", "\n", "a", "\f", "a">>],
           [language |-> "fr", flavor_text |-> <<"b">>],
           [language |-> "en", flavor_text |-> <<"a", " ", "a", " ", " ", "a", "\n">>] >>,
     evolves_from_species |-> Some(<<"c", "h", "a", "r", "m", "e", "l", "e", "o", "n">>)]

\* the defaults of the .get calls of lines 132-137 and 149-152
SpeciesDefaults ==
    [color |-> <<>>, habitat |-> None, is_legendary |-> FALSE, is_mythical |-> FALSE,
     flavor_text_entries |-> <<>>, evolves_from_species |-> None]

\* the record the species expressions read
Species(species_data) == IF species_data = None THEN SpeciesDefaults ELSE Get(species_data)

\* species_data.get('habitat', {}).get('name', '') if species_data.get('habitat') else ''
habitat_name(habitat) == IF habitat = None THEN <<>> ELSE Get(habitat)

\* evolves_from['name'].title() if evolves_from else None
evolves_from_name(evolves_from) ==
    IF evolves_from = None THEN None ELSE Some(str_title(Get(evolves_from)))

\* the document of a record; the species fields are there only `if species_data`
process_pokemon_data(basic_data, species_data) ==
    LET types == basic_data.types
        abilities == abilities_where(basic_data.abilities, FALSE)
        hidden_abilities == abilities_where(basic_data.abilities, TRUE)
    IN  [id |-> str_of_int(Get(basic_data.id)),
         pokemon_id |-> Get(basic_data.id),
         name |-> str_title(Get(basic_data.name)),
         types |-> types,
         primary_type |-> IF types # <<>> THEN types[1] ELSE <<"u", "n", "k", "n", "o", "w", "n">>,
         secondary_type |-> IF Len(types) > 1 THEN Some(types[2]) ELSE None,
         abilities |-> abilities,
         hidden_abilities |-> hidden_abilities,
         all_abilities |-> abilities \o hidden_abilities,
         color |-> species_field(species_data, Species(species_data).color),
         habitat |-> species_field(species_data, habitat_name(Species(species_data).habitat)),
         is_legendary |-> species_field(species_data, Species(species_data).is_legendary),
         is_mythical |-> species_field(species_data, Species(species_data).is_mythical),
         generation |-> species_field(species_data, generation_of(Get(basic_data.id))),
         flavor_text |-> species_field(species_data,
                                       extract_flavor_texts(Species(species_data))),
         evolves_from |-> species_field(species_data,
                            evolves_from_name(Species(species_data).evolves_from_species))]

(***************************************************************************)
(* The index with known documents.  The fields the probes search are       *)
(* declared as string fields (src/solr_indexer.py, lines 42, 63 and 66): a *)
(* term or a quoted phrase matches a value only when it equals it, letter  *)
(* case included.                                                          *)
(***************************************************************************)
\* records as the upstream API serves them: lower-case names, hyphenated
Charmander ==
    [id |-> Some(4), name |-> Some(<<"c", "h", "a", "r", "m", "a", "n", "d", "e", "r">>),
     types |-> << <<"f", "i", "r", "e">> >>,
     abilities |-> << [name |-> <<"b", "l", "a", "z", "e">>, is_hidden |-> FALSE],
                      [name |-> <<"s", "o", "l", "a", "r", "-", "p", "o", "w", "e", "r">>,
                       is_hidden |-> TRUE] >>]

Charizard ==
    [id |-> Some(6), name |-> Some(<<"c", "h", "a", "r", "i", "z", "a", "r", "d">>),
     types |-> << <<"f", "i", "r", "e">>, <<"f", "l", "y", "i", "n", "g">> >>,
     abilities |-> << [name |-> <<"b", "l", "a", "z", "e">>, is_hidden |-> FALSE] >>]

\* a record whose type name is already capitalized
Squirtle ==
    [id |-> Some(7), name |-> Some(<<"s", "q", "u", "i", "r", "t", "l", "e">>),
     types |-> << <<"W", "a", "t", "e", "r">> >>,
     abilities |-> << [name |-> <<"t", "o", "r", "r", "e", "n", "t">>, is_hidden |-> FALSE] >>]

SomeSpecies == Some(PlainSpecies)

\* the index after the documents of these records have been added
IndexStates ==
    {{}, {process_pokemon_data(Charmander, SomeSpecies)},
     {process_pokemon_data(Charmander, None), process_pokemon_data(Charizard, SomeSpecies),
      process_pokemon_data(Squirtle, SomeSpecies)}}

\* all_abilities:"<title_query>" on a multi-valued string field
ability_hits(docs, title_query) ==
    Cardinality({d \in docs : \E i \in 1..Len(d.all_abilities) :
                                  d.all_abilities[i] = title_query})

\* (primary_type:<title_query> OR secondary_type:<title_query>) on string fields
type_hits(docs, title_query) ==
    Cardinality({d \in docs : \/ d.primary_type = title_query
                              \/ d.secondary_type = Some(title_query)})

\* a token the query parser reads as one term: letters only
IsTerm(token) == token # <<>> /\ \A i \in 1..Len(token) : IsCased(token[i])

\* a reply to pysolr's search(): an exception, or a result with a hit count
ProbeReplies ==
    {[raised |-> TRUE, hits |-> 0], [raised |-> FALSE, hits |-> 0],
     [raised |-> FALSE, hits |-> 2]}

NoFacets == [f \in {} |-> [is_list |-> TRUE, items |-> <<>>]]

SomeFacets ==
    (<<"generation">> :> [is_list |-> TRUE, items |-> <<"1", "3", "2", "1">>]) @@
    (<<"primary_type">> :> [is_list |-> TRUE, items |-> <<"Fire", "2", "Water">>]) @@
    (<<"type", "_facet">> :> [is_list |-> TRUE, items |-> <<"Fire", "2">>]) @@
    (<<"color">> :> [is_list |-> FALSE, items |-> <<>>])

MainReplies ==
    {[raised |-> TRUE, hits |-> 0, docs |-> <<>>, facets |-> NoFacets],
     [raised |-> FALSE, hits |-> 0, docs |-> <<>>, facets |-> NoFacets],
     [raised |-> FALSE, hits |-> 4, docs |-> <<"Charmander", "Vulpix">>, facets |-> SomeFacets]}

\* an element of a JSON list of the spellcheck reply
Str(t) == [is_str |-> TRUE, text |-> t]
NotStr == [is_str |-> FALSE, text |-> "object"]
Token(t) == [is_dict |-> FALSE, words |-> <<t>>]
Entry(ws) == [is_dict |-> TRUE, words |-> ws]

CollationElems == {Str("collation"), Str("pikachu"), NotStr}

RECURSIVE ListsUpTo(_, _)
ListsUpTo(S, n) ==
    IF n = 0 THEN {<<>>}
    ELSE LET shorter == ListsUpTo(S, n - 1)
         IN  shorter \cup {Append(s, c) : s \in {t \in shorter : Len(t) = n - 1}, c \in S}

SuggestionLists ==
    {<<>>,
     <<Token("pikachuu"), Entry(<<"pikachu">>)>>,
     <<Entry(<<"pikachu", "pichu">>), Entry(<<>>), Entry(<<"raichu">>)>>}

\* a JSON object without a 'spellcheck' member
NoSpellData == [has_spellcheck |-> FALSE, suggestions |-> <<>>, collations |-> <<>>]

SpellData ==
    {NoSpellData}
    \cup {[has_spellcheck |-> TRUE, suggestions |-> s, collations |-> c] :
            s \in SuggestionLists, c \in ListsUpTo(CollationElems, MaxCollations)}

\* how the spellcheck GET ends: requests.get raises, raise_for_status raises,
\* the body is no JSON (requests raises its JSONDecodeError, a RequestException,
\* from 2.27 on and a plain ValueError before), the JSON is no object of the
\* expected shape (AttributeError, TypeError or KeyError), or it is one
SpellFailures == {"transport", "http_status", "json_request_exception",
                  "json_value_error", "bad_shape"}

SpellReplies ==
    {[status |-> f, data |-> NoSpellData] : f \in SpellFailures}
    \cup {[status |-> "ok", data |-> d] : d \in SpellData}

CoreSpellReplies ==
    {[status |-> "transport", data |-> NoSpellData],
     [status |-> "ok",
      data |-> [has_spellcheck |-> TRUE,
                suggestions |-> <<Token("pikachuu"), Entry(<<"pikachu">>)>>,
                collations |-> <<Str("collation"), Str("pikachu")>>]]}

SpellRepliesFor(a, ref_on) ==
    IF a \in SpellSlice /\ ~ref_on THEN SpellReplies ELSE CoreSpellReplies

(***************************************************************************)
(* PokemonSearchApp.search_pokemon and its helpers.                        *)
(***************************************************************************)
DefaultStart == 0
DefaultRows == 20
MaxRows == 100

\* request.args.get(name, default)
ArgOr(o, default) == IF o = None THEN default ELSE Get(o)

\* truthiness of an optional string argument
Truthy(o) == o # None /\ Get(o) # <<>>

\* a variant that tests `if not query` without the strip
effective_query_unstripped(a) ==
    LET raw == ArgOr(a.q, <<>>)
    IN  IF raw = <<>> THEN MatchAll ELSE raw

\* query = request.args.get('q', ''); if not query.strip(): query = '*:*'
effective_query(a) ==
    LET raw == ArgOr(a.q, <<>>)
    IN  IF str_strip(raw) = <<>> THEN MatchAll ELSE raw

\* int(request.args.get('start', 0)) and int(request.args.get('rows', 20)) both parse
page_parses(a) ==
    /\ a.start = None \/ IsInt(Get(a.start))
    /\ a.rows = None \/ IsInt(Get(a.rows))

parsed_start(a) == IF a.start = None THEN DefaultStart ELSE int(Get(a.start))

\* a variant without the cap
parsed_rows_uncapped(a) == IF a.rows = None THEN DefaultRows ELSE int(Get(a.rows))

\* rows = min(int(request.args.get('rows', 20)), 100)
parsed_rows(a) == Min(IF a.rows = None THEN DefaultRows ELSE int(Get(a.rows)), MaxRows)

\* sort_param = f"{sort_field} {sort_order}"
sort_param(a) == ArgOr(a.sort, <<"pokemon_id">>) \o <<" ">> \o ArgOr(a.order, <<"asc">>)

\* a variant that compares without .lower()
legendary_clause_case_sensitive(is_legendary) ==
    IF is_legendary \in TrueLike
    THEN <<"(is_legendary:true OR is_mythical:true)">>
    ELSE <<"(is_legendary:false AND is_mythical:false)">>

legendary_clause(is_legendary) ==
    IF str_lower(is_legendary) \in TrueLike
    THEN <<"(is_legendary:true OR is_mythical:true)">>
    ELSE <<"(is_legendary:false AND is_mythical:false)">>

build_solr_filters(generation, pokemon_type, ability, is_legendary) ==
    (IF Truthy(generation) THEN << <<"generation:">> \o Get(generation) >> ELSE <<>>)
    \o (IF Truthy(pokemon_type)
        THEN << <<"(primary_type:">> \o Get(pokemon_type) \o <<" OR secondary_type:">>
                \o Get(pokemon_type) \o <<")">> >>
        ELSE <<>>)
    \o (IF Truthy(ability)
        THEN << <<"all_abilities:*">> \o Get(ability) \o <<"*">> >>
        ELSE <<>>)
    \o (IF Truthy(is_legendary) THEN <<legendary_clause(Get(is_legendary))>> ELSE <<>>)

\* if query and query != '*:*'
needs_classification(q) == q # <<>> /\ q # MatchAll

\* if query.strip() and query != '*:*'
wants_spellcheck(q) == str_strip(q) # <<>> /\ q # MatchAll

\* what the index can answer to a probe for title_query: anything when its
\* documents are not known (or the clause is not a single term), else an
\* exception or the count of the matching documents
ProbeRepliesFor(kind, title_query) ==
    IF index = None THEN ProbeReplies
    ELSE IF kind = "ability"
    THEN {[raised |-> TRUE, hits |-> 0],
          [raised |-> FALSE, hits |-> ability_hits(Get(index), title_query)]}
    ELSE IF IsTerm(title_query)
    THEN {[raised |-> TRUE, hits |-> 0],
          [raised |-> FALSE, hits |-> type_hits(Get(index), title_query)]}
    ELSE ProbeReplies

\* a variant whose except clause returns True
probe_result_error_positive(reply) == IF reply.raised THEN TRUE ELSE reply.hits > 0

\* the value check_if_ability / check_if_type returns for a reply of the index
probe_result(reply) == IF reply.raised THEN FALSE ELSE reply.hits > 0

\* the request check_if_ability(query_lower) sends
ability_probe(query_lower) ==
    [kind |-> "ability_probe",
     params |-> [q |-> <<"all_abilities:\"">> \o str_title(query_lower) \o <<"\"">>,
                 rows |-> 0, facet |-> "true", facet_field |-> <<"all_abilities">>,
                 facet_mincount |-> 1]]

\* the request check_if_type(query_lower) sends
type_probe(query_lower) ==
    [kind |-> "type_probe",
     params |-> [q |-> <<"(primary_type:">> \o str_title(query_lower)
                       \o <<" OR secondary_type:">> \o str_title(query_lower) \o <<")">>,
                 rows |-> 0, facet |-> "true",
                 facet_field |-> <<"primary_type", "secondary_type">>,
                 facet_mincount |-> 1]]

\* a variant that skips check_if_type once the ability probe is positive
after_ability_probe_short_circuit(ab) == IF ab THEN "main" ELSE "type_probe"

\* where the handler goes once check_if_ability has returned
after_ability_probe(ab) == "type_probe"

\* the branch of the query strategy
classify(q, ab, ty) ==
    IF ~needs_classification(q) THEN "match-all"
    ELSE IF ab THEN "ability-like"
    ELSE IF ty THEN "type-like"
    ELSE IF Len(q) <= 3 \/ ~HasChar(q, " ") THEN "short-wildcard"
    ELSE "free-text"

ability_query(q) ==
    <<"name:*">> \o q \o <<"* OR all_abilities:\"">> \o str_title(q)
    \o <<"\" OR all_abilities:*">> \o str_title(q) \o <<"*">>

type_query(q) ==
    <<"name:*">> \o q \o <<"* OR types:*">> \o str_title(q) \o <<"* OR primary_type:">>
    \o str_title(q) \o <<" OR secondary_type:">> \o str_title(q)

wildcard_query(q) ==
    <<"name:*">> \o q \o <<"* OR name:*">> \o str_capitalize(q) \o <<"*">>

enhanced_query(q, class) ==
    CASE class = "ability-like" -> ability_query(q)
      [] class = "type-like" -> type_query(q)
      [] class = "short-wildcard" -> wildcard_query(q)
      [] class = "free-text" -> q
      [] OTHER -> MatchAll

Edismax ==
    [defType |-> "edismax", qf |-> "name^5 types^3 all_abilities^3 flavor_text^1",
     mm |-> "1", qs |-> "2", ps |-> "2", tie |-> "0.1"]

\* a variant that folds the filters into the main query instead of fq
search_params_filters_in_query(q, class, st, rw, sort, fq) ==
    [kind |-> "main",
     params |-> [q |-> IF fq # <<>> THEN enhanced_query(q, class) \o <<" AND ">> \o fq[1]
                       ELSE enhanced_query(q, class),
                 start |-> st, rows |-> rw, sort |-> sort,
                 facet |-> "true",
                 facet_field |-> <<"generation", "primary_type", "color", "habitat">>,
                 facet_mincount |-> 1,
                 relevance |-> IF class = "match-all" THEN None ELSE Some(Edismax),
                 fq |-> IF fq # <<>> THEN Some(fq) ELSE None]]

\* the params of self.solr.search(**params)
search_params(q, class, st, rw, sort, fq) ==
    [kind |-> "main",
     params |-> [q |-> enhanced_query(q, class), start |-> st, rows |-> rw, sort |-> sort,
                 facet |-> "true",
                 facet_field |-> <<"generation", "primary_type", "color", "habitat">>,
                 facet_mincount |-> 1,
                 relevance |-> IF class = "match-all" THEN None ELSE Some(Edismax),
                 fq |-> IF fq # <<>> THEN Some(fq) ELSE None]]

spellcheck_request(q) ==
    [kind |-> "spellcheck",
     params |-> [q |-> q, spellcheck |-> "true", build |-> "true", collate |-> "true",
                 maxCollations |-> 5, dictionary |-> "default",
                 extendedResults |-> "true", wt |-> "json"]]

RECURSIVE flatten_words(_)
flatten_words(items) ==
    IF items = <<>> THEN <<>>
    ELSE (IF Head(items).is_dict /\ Head(items).words # <<>> THEN Head(items).words ELSE <<>>)
         \o flatten_words(Tail(items))

\* a variant that prefers the first element
pick_collation_first(collations_list) ==
    IF Len(collations_list) > 0 /\ collations_list[1].is_str
    THEN Some(collations_list[1].text)
    ELSE IF Len(collations_list) > 1 /\ collations_list[2].is_str
    THEN Some(collations_list[2].text)
    ELSE None

\* the choice among the elements of spellcheck.collations
pick_collation(collations_list) ==
    IF Len(collations_list) > 1 /\ collations_list[2].is_str
    THEN Some(collations_list[2].text)
    ELSE IF Len(collations_list) > 0 /\ collations_list[1].is_str
    THEN Some(collations_list[1].text)
    ELSE None

\* does the data pass `spellcheck_data.get('spellcheck') and ...get('suggestions')`
has_suggestions(data) == data.has_spellcheck /\ data.suggestions # <<>>

spell_suggestions(data) ==
    IF has_suggestions(data) THEN flatten_words(data.suggestions) ELSE <<>>

\* a variant that reads the collations whatever the suggestions are
spell_collated_unguarded(data) ==
    IF data.has_spellcheck /\ data.collations # <<>>
    THEN pick_collation(data.collations)
    ELSE None

\* lines 191-201: the collations are read inside the test on the suggestions
spell_collated(data) ==
    IF has_suggestions(data) /\ data.collations # <<>>
    THEN pick_collation(data.collations)
    ELSE None

\* the failures of the spellcheck lookup that `except RequestException` catches
spell_caught(status) == status \in {"transport", "http_status", "json_request_exception"}

\* field.endswith('_facet'); a field name is its stem, or its stem and the suffix
ends_with_facet(field) == field[Len(field)] = "_facet"

\* lines 339-344: for i in range(0, len(values), 2): if i + 1 < len(values): append
RECURSIVE facet_pairs(_, _)
facet_pairs(values, i) ==
    IF i >= Len(values) THEN <<>>
    ELSE (IF i + 1 < Len(values)
          THEN <<[value |-> values[i + 1], count |-> values[i + 2]]>>
          ELSE <<>>)
         \o facet_pairs(values, i + 2)

\* a variant that keeps the internal fields
format_facets_keeping_internal(facets) ==
    [f \in {g \in DOMAIN facets : facets[g].is_list} |-> facet_pairs(facets[f].items, 0)]

\* PokemonSearchApp.format_facets
format_facets(facets) ==
    [f \in {g \in DOMAIN facets : ~(ends_with_facet(g) \/ ~facets[g].is_list)} |->
        facet_pairs(facets[f].items, 0)]

success_envelope(res, st, rw, q, sugg, collated, a) ==
    [success |-> TRUE, status |-> 200, total |-> res.hits, start |-> st, rows |-> rw,
     results |-> res.docs, facets |-> format_facets(res.facets), query |-> q,
     spellcheck |-> [suggestions |-> sugg, collated |-> collated],
     filters |-> [generation |-> a.generation, type |-> a.type, ability |-> a.ability,
                  legendary |-> a.legendary]]

\* a variant with the envelope of get_pokemon_detail (no total, no results)
failure_envelope_bare(e) == [success |-> FALSE, status |-> 500, error |-> e]

failure_envelope(e) ==
    [success |-> FALSE, status |-> 500, total |-> 0, results |-> <<>>, error |-> e]

(***************************************************************************)
(* The search handler, step by step.                                       *)
(***************************************************************************)
\* the requests made against an index with known documents: the names of
\* its types and abilities in several letter cases, and a name it does not hold
IndexedQueries ==
    {<<"f", "i", "r", "e">>, <<"F", "I", "R", "E">>, <<"F", "i", "r", "e">>,
     <<"f", "I", "r", "E">>, <<"W", "A", "T", "E", "R">>, <<"w", "a", "t", "e", "r">>,
     <<"F", "l", "y", "i", "n", "g">>,
     <<"b", "l", "a", "z", "e">>, <<"B", "L", "A", "Z", "E">>,
     <<"s", "o", "l", "a", "r", " ", "p", "o", "w", "e", "r">>,
     <<" ", "t", "o", "r", "r", "e", "n", "t">>, <<"m", "u", "d">>}

IndexedRequests == {[NoArgs EXCEPT !.q = Some(q)] : q \in IndexedQueries}

Request(ref_on) ==
    IF index # None THEN IndexedRequests
    ELSE IF ref_on THEN PairRequests ELSE SearchRequests

\* lines 89-112: read the arguments; a ValueError of int() goes to `except Exception`
SearchStart ==
    /\ pc = "idle"
    /\ \E a \in Request(ref.on) :
        /\ handler' = "search"
        /\ args' = Some(a)
        /\ query' = effective_query(a)
        /\ IF page_parses(a)
           THEN /\ start' = parsed_start(a)
                /\ rows' = parsed_rows(a)
                /\ filters' = build_solr_filters(a.generation, a.type, a.ability, a.legendary)
                /\ pc' = IF needs_classification(effective_query(a))
                         THEN "ability_probe" ELSE "main"
                /\ response' = None
           ELSE /\ response' = Some(failure_envelope("ValueError"))
                /\ pc' = "done"
                /\ UNCHANGED <<start, rows, filters>>
    /\ UNCHANGED <<is_ability, is_type, classification, results, suggestions,
                   spellcheck_data, sent, outcomes, replies, ref>>
    /\ UNCHANGED ingestVars

\* line 120: is_ability = self.check_if_ability(query_lower)
CheckIfAbility ==
    /\ pc = "ability_probe"
    /\ \E reply \in ProbeRepliesFor("ability", str_title(str_strip(str_lower(query)))) :
        /\ sent' = Append(sent, ability_probe(str_strip(str_lower(query))))
        /\ outcomes' = Append(outcomes, IF reply.raised THEN "error"
                                         ELSE IF reply.hits > 0 THEN "hit" ELSE "miss")
        /\ is_ability' = probe_result(reply)
        /\ pc' = after_ability_probe(probe_result(reply))
    /\ UNCHANGED <<handler, args, query, start, rows, filters, is_type, classification,
                   results, suggestions, spellcheck_data, response, replies, ref>>
    /\ UNCHANGED ingestVars

\* line 121: is_type = self.check_if_type(query_lower)
CheckIfType ==
    /\ pc = "type_probe"
    /\ \E reply \in ProbeRepliesFor("type", str_title(str_strip(str_lower(query)))) :
        /\ sent' = Append(sent, type_probe(str_strip(str_lower(query))))
        /\ outcomes' = Append(outcomes, IF reply.raised THEN "error"
                                         ELSE IF reply.hits > 0 THEN "hit" ELSE "miss")
        /\ is_type' = probe_result(reply)
        /\ pc' = "main"
    /\ UNCHANGED <<handler, args, query, start, rows, filters, is_ability, classification,
                   results, suggestions, spellcheck_data, response, replies, ref>>
    /\ UNCHANGED ingestVars

\* lines 116-170: build the query and the params, run the main query; lines
\* 173-175 and 206-226 when no spellcheck lookup is made
MainQuery ==
    /\ pc = "main"
    /\ \E reply \in MainReplies :
        LET class == classify(query, is_ability, is_type)
        IN  /\ classification' = class
            /\ sent' = Append(sent, search_params(query, class, start, rows,
                                                  sort_param(Get(args)), filters))
            /\ outcomes' = Append(outcomes, IF reply.raised THEN "error" ELSE "ok")
            /\ IF reply.raised
               THEN /\ response' = Some(failure_envelope("SolrError"))
                    /\ pc' = "done"
                    /\ UNCHANGED results
               ELSE /\ results' = Some(reply)
                    /\ IF wants_spellcheck(query)
                       THEN /\ pc' = "spellcheck"
                            /\ UNCHANGED response
                       ELSE /\ pc' = "done"
                            /\ response' = Some(success_envelope(reply, start, rows, query,
                                                                 <<>>, None, Get(args)))
    /\ UNCHANGED <<handler, args, query, start, rows, filters, is_ability, is_type,
                   suggestions, spellcheck_data, replies, ref>>
    /\ UNCHANGED ingestVars

\* lines 176-226: the spellcheck lookup and the response
Spellcheck ==
    /\ pc = "spellcheck"
    /\ \E reply \in SpellRepliesFor(Get(args), ref.on) :
        /\ sent' = Append(sent, spellcheck_request(query))
        /\ outcomes' = Append(outcomes, reply.status)
        /\ spellcheck_data' = IF reply.status = "ok" THEN Some(reply.data) ELSE None
        /\ IF reply.status = "ok"
           THEN /\ suggestions' = spell_suggestions(reply.data)
                /\ response' = Some(success_envelope(Get(results), start, rows, query,
                                                     spell_suggestions(reply.data),
                                                     spell_collated(reply.data), Get(args)))
           ELSE IF spell_caught(reply.status)
           THEN /\ suggestions' = <<>>
                /\ response' = Some(success_envelope(Get(results), start, rows, query,
                                                     <<>>, None, Get(args)))
           ELSE /\ suggestions' = <<>>
                /\ response' = Some(failure_envelope(
                                      IF reply.status = "bad_shape" THEN "AttributeError"
                                      ELSE "ValueError"))
        /\ pc' = "done"
    /\ UNCHANGED <<handler, args, query, start, rows, filters, is_ability, is_type,
                   classification, results, replies, ref>>
    /\ UNCHANGED ingestVars

HasMain == \E i \in 1..Len(sent) : sent[i].kind = "main"

Main == sent[CHOOSE i \in 1..Len(sent) : sent[i].kind = "main"]

\* the outcomes of the classification probes of the request, in order
ProbeOutcomes ==
    SubSeq(outcomes, 1, Cardinality({i \in 1..Len(sent) :
                                        sent[i].kind \in {"ability_probe", "type_probe"}}))

\* what a pair check keeps of a search request that reached its main query
Summary ==
    [args |-> Get(args), probes |-> ProbeOutcomes, sent |-> sent, main |-> Main]

\* the response has been returned; the next request starts from fresh locals
Finish ==
    /\ pc = "done"
    /\ pc' = "idle"
    /\ handler' = "none"
    /\ args' = None
    /\ query' = <<>>
    /\ start' = 0
    /\ rows' = 0
    /\ filters' = <<>>
    /\ is_ability' = FALSE
    /\ is_type' = FALSE
    /\ classification' = "none"
    /\ results' = None
    /\ suggestions' = <<>>
    /\ spellcheck_data' = None
    /\ sent' = <<>>
    /\ outcomes' = <<>>
    /\ response' = None
    /\ replies' = <<>>
    /\ ref' = IF ref.on /\ ref.seen = {} /\ handler = "search" /\ HasMain
              THEN [ref EXCEPT !.seen = {Summary}]
              ELSE ref
    /\ UNCHANGED ingestVars

(***************************************************************************)
(* PokemonSearchApp.get_autocomplete_suggestions.                          *)
(***************************************************************************)
MinAutocompleteLen == 2
MaxSuggestions == 8

AutocompleteRequests == {[NoArgs EXCEPT !.q = q] : q \in Option(Queries)}

\* terms of the index and names of documents, as the lookups return them
TermLists ==
    {<<>>,
     <<<<"a", "a">>, <<"3">>, <<"A", "a", "b">>, <<"1">>, <<"b", "a", "a">>, <<"2">>>>,
     <<<<"a", "a">>, <<"1">>, <<"a", " ", "a">>>>,
     <<<<"a", "a", "e">>, <<"2">>, <<"a", "a", "E">>, <<"1">>, <<"A", "a", "f">>, <<"1">>,
       <<"a", "a", "l">>, <<"5">>, <<"a", "a", "e">>, <<"1">>, <<"a", "A", "n">>, <<"1">>>>}

LookupFailures == {"transport", "http_status", "json_request_exception",
                   "json_value_error", "bad_shape"}

\* a reply of the terms component: a failure, or the term lists of the fields
TermsReplies ==
    {[status |-> f, fields |-> <<>>] : f \in LookupFailures}
    \cup {[status |-> "ok", fields |-> fs] :
            fs \in {<<>>} \cup {<<t>> : t \in TermLists}
                   \cup {<<TermListA, TermListB>> : TermListA \in TermLists,
                                                   TermListB \in TermLists}}

\* a reply of the name search: a failure, or the names of the documents found
NameReplies ==
    {[status |-> f, docs |-> <<>>] : f \in LookupFailures}
    \cup {[status |-> "ok", docs |-> d] :
            d \in {<<>>,
                   <<<<"A", "a", "b">>, <<"b", "a", "A">>, <<"a", "a">>>>,
                   <<<<"b", "A", "a">>, <<>>, <<"A", "a">>, <<"b", "A", "a">>>>,
                   <<<<"b", "a", "a">>, <<"A", "a", "o">>, <<"a", "a", "e">>, <<"o", "A", "a">>,
                     <<"a", "a", "r">>, <<"A", "a", "o">>, <<"A", "a", "s">>, <<"a", "a">>,
                     <<"A", "A", "t">>>>}}

\* the failures `except requests.exceptions.RequestException` catches
lookup_caught(status) == status \in {"transport", "http_status", "json_request_exception"}

\* a variant that only tests `if not query`
too_short_empty_only(q) == q = <<>>

\* if not query or len(query) < 2
too_short(q) == q = <<>> \/ Len(q) < MinAutocompleteLen

InSeq(x, s) == \E i \in 1..Len(s) : s[i] = x

terms_request(q) ==
    [kind |-> "terms",
     params |-> [terms |-> "true", fl |-> "name,name_spell,types,all_abilities",
                 prefix |-> str_lower(q), limit |-> 15, wt |-> "json"]]

names_request(q) ==
    [kind |-> "names",
     params |-> [q |-> <<"name:*">> \o q \o <<"* OR name:*">> \o str_capitalize(q) \o <<"*">>,
                 rows |-> 15, fl |-> "name", wt |-> "json"]]

\* lines 467-473: the terms at the even positions of one field's flat list
RECURSIVE add_terms(_, _, _, _)
add_terms(sugg, terms_list, i, q) ==
    IF i > Len(terms_list) THEN sugg
    ELSE LET term == terms_list[i]
         IN  add_terms(IF str_startswith(str_lower(term), str_lower(q)) /\ ~InSeq(term, sugg)
                       THEN Append(sugg, term) ELSE sugg,
                       terms_list, i + 2, q)

\* lines 463-473: every field of terms_data['terms']
RECURSIVE add_fields(_, _, _)
add_fields(sugg, fields, q) ==
    IF fields = <<>> THEN sugg
    ELSE add_fields(add_terms(sugg, Head(fields), 1, q), Tail(fields), q)

\* lines 502-508: the names kept, prefix matches (TRUE) or substring matches (FALSE)
RECURSIVE name_matches(_, _, _, _)
name_matches(docs, sugg, q, prefix) ==
    IF docs = <<>> THEN <<>>
    ELSE LET name == Head(docs)
             kept == /\ name # <<>>
                     /\ str_contains(str_lower(name), str_lower(q))
                     /\ ~InSeq(name, sugg)
                     /\ str_startswith(str_lower(name), str_lower(q)) = prefix
         IN  (IF kept THEN <<name>> ELSE <<>>) \o name_matches(Tail(docs), sugg, q, prefix)

\* list(dict.fromkeys(suggestions))
RECURSIVE dedupe(_, _)
dedupe(s, seen) ==
    IF s = <<>> THEN <<>>
    ELSE IF InSeq(Head(s), seen) THEN dedupe(Tail(s), seen)
    ELSE <<Head(s)>> \o dedupe(Tail(s), Append(seen, Head(s)))

\* a variant without the [:8]
unique_suggestions_uncapped(sugg) == dedupe(sugg, <<>>)

unique_suggestions(sugg) ==
    LET u == dedupe(sugg, <<>>) IN SubSeq(u, 1, Min(Len(u), MaxSuggestions))

autocomplete_envelope(sugg) == [success |-> TRUE, status |-> 200, suggestions |-> sugg]

autocomplete_failure(e) ==
    [success |-> FALSE, status |-> 500, error |-> e, suggestions |-> <<>>]

\* lines 436-444
AutocompleteStart ==
    /\ pc = "idle"
    /\ ~ref.on
    /\ \E a \in AutocompleteRequests :
        /\ handler' = "autocomplete"
        /\ args' = Some(a)
        /\ query' = str_strip(ArgOr(a.q, <<>>))
        /\ IF too_short(str_strip(ArgOr(a.q, <<>>)))
           THEN /\ response' = Some(autocomplete_envelope(<<>>))
                /\ pc' = "done"
           ELSE /\ response' = None
                /\ pc' = "terms"
    /\ UNCHANGED <<start, rows, filters, is_ability, is_type, classification, results,
                   suggestions, spellcheck_data, sent, outcomes, replies, ref>>
    /\ UNCHANGED ingestVars

\* lines 447-477: the terms lookup
TermsLookup ==
    /\ pc = "terms"
    /\ \E reply \in TermsReplies :
        /\ sent' = Append(sent, terms_request(query))
        /\ outcomes' = Append(outcomes, reply.status)
        /\ replies' = Append(replies, reply)
        /\ IF reply.status = "ok"
           THEN /\ suggestions' = add_fields(suggestions, reply.fields, query)
                /\ pc' = "names"
                /\ UNCHANGED response
           ELSE IF lookup_caught(reply.status)
           THEN /\ pc' = "names"
                /\ UNCHANGED <<suggestions, response>>
           ELSE /\ response' = Some(autocomplete_failure(
                                      IF reply.status = "bad_shape" THEN "AttributeError"
                                      ELSE "ValueError"))
                /\ pc' = "done"
                /\ UNCHANGED suggestions
    /\ UNCHANGED <<handler, args, query, start, rows, filters, is_ability, is_type,
                   classification, results, spellcheck_data, ref>>
    /\ UNCHANGED ingestVars

\* lines 480-525: the name search and the response
NameLookup ==
    /\ pc = "names"
    /\ \E reply \in NameReplies :
        /\ sent' = Append(sent, names_request(query))
        /\ outcomes' = Append(outcomes, reply.status)
        /\ replies' = Append(replies, reply)
        /\ IF reply.status = "ok"
           THEN LET all == suggestions
                           \o name_matches(reply.docs, suggestions, query, TRUE)
                           \o name_matches(reply.docs, suggestions, query, FALSE)
                IN  /\ suggestions' = all
                    /\ response' = Some(autocomplete_envelope(unique_suggestions(all)))
           ELSE IF lookup_caught(reply.status)
           THEN /\ response' = Some(autocomplete_envelope(unique_suggestions(suggestions)))
                /\ UNCHANGED suggestions
           ELSE /\ response' = Some(autocomplete_failure(
                                      IF reply.status = "bad_shape" THEN "AttributeError"
                                      ELSE "ValueError"))
                /\ UNCHANGED suggestions
        /\ pc' = "done"
    /\ UNCHANGED <<handler, args, query, start, rows, filters, is_ability, is_type,
                   classification, results, spellcheck_data, ref>>
    /\ UNCHANGED ingestVars

(***************************************************************************)
(* The ingestion scripts: src/main.py with src/api_client.py,              *)
(* src/data_processor.py and src/solr_indexer.py, and the older            *)
(* single-file src/fetcher_v2.py.                                          *)
(***************************************************************************)
\* no script is running
IngestIdle ==
    /\ program = "none"
    /\ ipc = "idle"
    /\ field_index = 1
    /\ all_successful = TRUE
    /\ schema_result = None
    /\ cleared = 0
    /\ gen_index = 1
    /\ pokemon_id = 0
    /\ fetched_basic = None
    /\ url = None
    /\ max_retries = 0
    /\ attempt = 0
    /\ upstream = <<>>
    /\ fetched = None
    /\ attempted = <<>>
    /\ all_documents = <<>>
    /\ batch_start = 0
    /\ submitted = <<>>
    /\ optimized = <<>>
    /\ run_result = None

(***************************************************************************)
(* ApiClient.fetch_with_retry (and PokemonFetcher.fetch_with_retry, which  *)
(* is the same code).                                                      *)
(***************************************************************************)
DefaultMaxRetries == 3

\* a record of /pokemon/<id> with every key the normalizer reads
GoodRecord(id) ==
    [id |-> Some(id), name |-> Some(<<"p">> \o str_of_int(id)),
     types |-> << <<"f", "i", "r", "e">> >>,
     abilities |-> << [name |-> <<"b", "l", "a", "z", "e">>, is_hidden |-> FALSE] >>]

\* a record without the key 'name'
NamelessRecord(id) == [GoodRecord(id) EXCEPT !.name = None]

\* the JSON object {}
EmptyRecord == [id |-> None, name |-> None, types |-> <<>>, abilities |-> <<>>]

\* f"{BASE_URL}/pokemon/{pokemon_id}" and f"{BASE_URL}/pokemon-species/{pokemon_id}"
basic_url(id) == [endpoint |-> "pokemon", id |-> id]
species_url(id) == [endpoint |-> "pokemon-species", id |-> id]

\* what a 2xx reply with a JSON body can hold
Payloads(u) ==
    IF u.endpoint = "pokemon" THEN {GoodRecord(u.id), NamelessRecord(u.id), EmptyRecord}
    ELSE {PlainSpecies}

\* what one GET can meet: a payload, or a failure
UpstreamFailures == {"transport", "http_status", "json_request_exception", "json_value_error"}

UpstreamOutcomes(u) ==
    {[status |-> "ok", payload |-> Some(x)] : x \in Payloads(u)}
    \cup {[status |-> f, payload |-> None] : f \in UpstreamFailures}

\* the exception class the try block sees; a body that is not JSON raises a
\* RequestException from requests 2.27 on and a plain ValueError before
seen_as(status) ==
    CASE status = "ok" -> "ok"
      [] status = "json_value_error" -> "ValueError"
      [] OTHER -> "RequestException"

\* if attempt == max_retries - 1
last_attempt(att, retries) == att = retries - 1

Returned(value) == Some([raised |-> FALSE, value |-> value])
Raised == Some([raised |-> TRUE, value |-> None])

\* one pass of the loop body at lines 32-43, or line 44 when the loop is over
FetchAttempt ==
    /\ ipc \in {"fetch_call", "fetch_basic", "fetch_species"}
    /\ fetched = None
    /\ IF attempt >= max_retries
       THEN /\ fetched' = Returned(None)
            /\ UNCHANGED <<attempt, upstream>>
       ELSE \E out \in UpstreamOutcomes(Get(url)) :
               /\ upstream' = Append(upstream, seen_as(out.status))
               /\ CASE seen_as(out.status) = "ok" ->
                          fetched' = Returned(out.payload) /\ UNCHANGED attempt
                    [] seen_as(out.status) = "ValueError" ->
                          fetched' = Raised /\ UNCHANGED attempt
                    [] OTHER ->
                          IF last_attempt(attempt, max_retries)
                          THEN fetched' = Returned(None) /\ UNCHANGED attempt
                          ELSE attempt' = attempt + 1 /\ UNCHANGED fetched
    /\ UNCHANGED <<index, program, ipc, field_index, all_successful, schema_result, cleared,
                   gen_index, pokemon_id, fetched_basic, url, max_retries, attempted,
                   all_documents, batch_start, submitted, optimized, run_result>>
    /\ UNCHANGED webVars

(***************************************************************************)
(* The run: main() of src/main.py and of src/fetcher_v2.py.                *)
(***************************************************************************)
Programs == {"main", "fetcher_v2"}

\* solr.ping() at the start of both scripts; a failure ends the run
Ping ==
    /\ ipc = "start"
    /\ \E ok \in BOOLEAN : ipc' = IF ok THEN "schema" ELSE "ended"
    /\ UNCHANGED <<index, program, field_index, all_successful, schema_result, cleared,
                   gen_index, pokemon_id, fetched_basic, url, max_retries, attempt, upstream,
                   fetched, attempted, all_documents, batch_start, submitted, optimized,
                   run_result>>
    /\ UNCHANGED webVars

(***************************************************************************)
(* SolrIndexer.setup_solr_schema (src/solr_indexer.py) and                 *)
(* PokemonFetcher.setup_solr_schema (src/fetcher_v2.py).                   *)
(***************************************************************************)
\* the names in fields_to_configure of src/solr_indexer.py
IndexerFields ==
    <<"pokemon_id", "name", "height", "weight", "base_experience", "primary_type",
      "total_stats", "generation", "color", "habitat", "capture_rate", "is_legendary",
      "is_mythical", "stat_hp", "stat_attack", "stat_defense", "stat_special_attack",
      "stat_special_defense", "stat_speed", "id", "flavor_text", "types", "secondary_type",
      "abilities", "hidden_abilities", "all_abilities", "evolves_from", "name_spell",
      "spellcheck_base", "levelup_moves">>

\* the names in fields_to_configure of src/fetcher_v2.py
FetcherFields ==
    <<"pokemon_id", "name", "height", "weight", "base_experience", "primary_type",
      "total_stats", "generation", "color", "habitat", "capture_rate", "is_legendary",
      "is_mythical", "stat_hp", "stat_attack", "stat_defense", "stat_special_attack",
      "stat_special_defense", "stat_speed", "id", "flavor_text", "types", "secondary_type",
      "abilities", "hidden_abilities", "all_abilities", "evolves_from", "levelup_moves">>

fields_to_configure(prog) == IF prog = "main" THEN IndexerFields ELSE FetcherFields

\* how one field can go in src/solr_indexer.py: the GET answers 200; the POST
\* of add-field succeeds; it answers 400 'already exists'; it answers another
\* error status; the GET or the POST raises something else
IndexerFieldOutcomes == {"exists", "added", "add_already_exists", "add_http_error", "exception"}

\* lines 93-101: which outcomes return False
indexer_field_fails(outcome) == outcome \in {"add_http_error", "exception"}

\* how one field can go in src/fetcher_v2.py: replace-field succeeds; it
\* answers 400 'not present' and add-field succeeds, or fails; it fails otherwise
FetcherFieldOutcomes == {"replaced", "missing_added", "missing_add_failed", "replace_failed"}

\* lines 160-171: which outcomes set all_successful = False
fetcher_field_fails(outcome) == outcome \in {"missing_add_failed", "replace_failed"}

\* whether the loop over the fields is left once a field has failed
leaves_loop(prog, failed) == failed /\ prog = "main"

\* one iteration of the loop over fields_to_configure
SchemaField ==
    /\ ipc = "schema"
    /\ field_index <= Len(fields_to_configure(program))
    /\ \E outcome \in IF program = "main" THEN IndexerFieldOutcomes ELSE FetcherFieldOutcomes :
          LET failed == IF program = "main" THEN indexer_field_fails(outcome)
                        ELSE fetcher_field_fails(outcome)
          IN  /\ all_successful' = IF program = "main" THEN all_successful
                                    ELSE (all_successful /\ ~failed)
              /\ IF leaves_loop(program, failed)
                 THEN /\ schema_result' = Some(FALSE)
                      /\ ipc' = "schema_done"
                      /\ UNCHANGED field_index
                 ELSE /\ field_index' = field_index + 1
                      /\ UNCHANGED <<schema_result, ipc>>
    /\ UNCHANGED <<index, program, cleared, gen_index, pokemon_id, fetched_basic, url,
                   max_retries, attempt, upstream, fetched, attempted, all_documents,
                   batch_start, submitted, optimized, run_result>>
    /\ UNCHANGED webVars

\* after the fields: the copy field of src/solr_indexer.py (lines 103-124),
\* the return of src/fetcher_v2.py (lines 173-178)
SchemaEnd ==
    /\ ipc = "schema"
    /\ field_index > Len(fields_to_configure(program))
    /\ IF program = "main"
       THEN \E outcome \in {"added", "add_already_exists", "add_http_error", "exception"} :
               schema_result' = Some(~indexer_field_fails(outcome))
       ELSE schema_result' = Some(all_successful)
    /\ ipc' = "schema_done"
    /\ UNCHANGED <<index, program, field_index, all_successful, cleared, gen_index,
                   pokemon_id, fetched_basic, url, max_retries, attempt, upstream, fetched,
                   attempted, all_documents, batch_start, submitted, optimized, run_result>>
    /\ UNCHANGED webVars

\* a variant that goes on after a schema failure
after_schema_ignoring_failure(ok) == "clear"

\* main.py 38-44, fetcher_v2.py 505-512: if not ...setup_solr_schema(): return
after_schema(ok) == IF ok THEN "clear" ELSE "ended"

SchemaChecked ==
    /\ ipc = "schema_done"
    /\ ipc' = after_schema(Get(schema_result))
    /\ UNCHANGED <<index, program, field_index, all_successful, schema_result, cleared,
                   gen_index, pokemon_id, fetched_basic, url, max_retries, attempt, upstream,
                   fetched, attempted, all_documents, batch_start, submitted, optimized,
                   run_result>>
    /\ UNCHANGED webVars

\* a variant that deletes nothing
delete_none(docs) == docs

\* self.solr.delete(q='*:*'): the documents left in the index
delete_all(docs) == {}

\* solr.delete(q='*:*'): main.py 44 (an exception ends the script), fetcher_v2.py
\* 457-460 (an exception makes fetch_and_index_all_generations return False)
Clear ==
    /\ ipc = "clear"
    /\ cleared' = cleared + 1
    /\ \E raised \in BOOLEAN :
          IF raised
          THEN /\ \E done \in BOOLEAN :
                     index' = IF done THEN Some(delete_all(Get(index))) ELSE index
               /\ ipc' = IF program = "main" THEN "crashed" ELSE "ended"
               /\ run_result' = IF program = "main" THEN run_result ELSE Some(FALSE)
          ELSE /\ index' = Some(delete_all(Get(index)))
               /\ ipc' = "pass"
               /\ UNCHANGED run_result
    /\ UNCHANGED <<program, field_index, all_successful, schema_result, gen_index,
                   pokemon_id, fetched_basic, url, max_retries, attempt, upstream, fetched,
                   attempted, all_documents, batch_start, submitted, optimized>>
    /\ UNCHANGED webVars

(***************************************************************************)
(* The pass over the declared generation ranges: main.py 46-66, and        *)
(* fetch_generation of src/fetcher_v2.py for each of its generations.      *)
(***************************************************************************)
\* config.GEN_LIMITS
GEN_LIMITS ==
    <<[gen |-> 1, start_id |-> 1, end_id |-> 151],
      [gen |-> 2, start_id |-> 152, end_id |-> 251],
      [gen |-> 3, start_id |-> 252, end_id |-> 386],
      [gen |-> 4, start_id |-> 387, end_id |-> 493],
      [gen |-> 5, start_id |-> 494, end_id |-> 649],
      [gen |-> 6, start_id |-> 650, end_id |-> 721],
      [gen |-> 7, start_id |-> 722, end_id |-> 809],
      [gen |-> 8, start_id |-> 810, end_id |-> 905],
      [gen |-> 9, start_id |-> 906, end_id |-> 1025]>>

\* self.gen_limits of src/fetcher_v2.py, in the order of `for generation in [1, 2, 3]`
gen_limits ==
    <<[gen |-> 1, start_id |-> 1, end_id |-> 11],
      [gen |-> 2, start_id |-> 152, end_id |-> 162],
      [gen |-> 3, start_id |-> 252, end_id |-> 262]>>

\* the ranges a run of the model walks: the first generations of the
\* script's table, each cut to its first ids
declared_ranges(prog) ==
    LET table == IF prog = "main" THEN GEN_LIMITS ELSE gen_limits
    IN  [g \in 1..Min(Len(table), MaxGenerations) |->
            [table[g] EXCEPT !.end_id = Min(table[g].end_id,
                                            table[g].start_id + MaxIdsPerGeneration - 1)]]

\* the call fetch_with_retry(url) with the default max_retries
StartFetch(position, u) ==
    /\ ipc' = position
    /\ url' = Some(u)
    /\ max_retries' = DefaultMaxRetries
    /\ attempt' = 0
    /\ upstream' = <<>>
    /\ fetched' = None

\* fetch_with_retry has returned: its locals are gone
EndFetch ==
    /\ url' = None
    /\ max_retries' = 0
    /\ attempt' = 0
    /\ upstream' = <<>>
    /\ fetched' = None

\* the head of the two loops: the next id of the range, or the next range
NextId ==
    /\ ipc = "pass"
    /\ gen_index <= Len(declared_ranges(program))
    /\ LET range == declared_ranges(program)[gen_index]
           next == IF pokemon_id = 0 THEN range.start_id ELSE pokemon_id + 1
       IN  IF next > range.end_id
           THEN /\ gen_index' = gen_index + 1
                /\ pokemon_id' = 0
                /\ UNCHANGED <<ipc, url, max_retries, attempt, upstream, fetched, attempted>>
           ELSE /\ pokemon_id' = next
                /\ attempted' = Append(attempted, next)
                /\ StartFetch("fetch_basic", basic_url(next))
                /\ UNCHANGED gen_index
    /\ UNCHANGED <<index, program, field_index, all_successful, schema_result, cleared,
                   fetched_basic, all_documents, batch_start, submitted, optimized,
                   run_result>>
    /\ UNCHANGED webVars

\* if not basic_data
falsy(value) == value = None \/ value = Some(EmptyRecord)

\* lines 50-55: basic_data is back; an exception goes to `except Exception`
GotBasic ==
    /\ ipc = "fetch_basic"
    /\ fetched # None
    /\ IF Get(fetched).raised \/ falsy(Get(fetched).value)
       THEN /\ ipc' = "pass"
            /\ EndFetch
            /\ UNCHANGED fetched_basic
       ELSE /\ fetched_basic' = Get(fetched).value
            /\ StartFetch("fetch_species", species_url(pokemon_id))
    /\ UNCHANGED <<index, program, field_index, all_successful, schema_result, cleared,
                   gen_index, pokemon_id, attempted, all_documents, batch_start, submitted,
                   optimized, run_result>>
    /\ UNCHANGED webVars

\* a variant whose except clause ends the pass
after_id_error_aborts(raised) == IF raised THEN "index" ELSE "pass"

\* lines 64-66: except Exception ... continue
after_id(raised) == "pass"

\* lines 55-66: species_data is back, the document is built and appended
GotSpecies ==
    /\ ipc = "fetch_species"
    /\ fetched # None
    /\ LET raised == Get(fetched).raised \/ normalizer_raises(Get(fetched_basic))
       IN  /\ all_documents' =
                  IF raised THEN all_documents
                  ELSE Append(all_documents,
                              process_pokemon_data(Get(fetched_basic), Get(fetched).value))
           /\ ipc' = after_id(raised)
    /\ EndFetch
    /\ fetched_basic' = None
    /\ UNCHANGED <<index, program, field_index, all_successful, schema_result, cleared,
                   gen_index, pokemon_id, attempted, batch_start, submitted, optimized,
                   run_result>>
    /\ UNCHANGED webVars

\* the loops are over: index_documents(all_documents)
PassDone ==
    /\ ipc = "pass"
    /\ gen_index > Len(declared_ranges(program))
    /\ ipc' = "index"
    /\ batch_start' = 0
    /\ UNCHANGED <<index, program, field_index, all_successful, schema_result, cleared,
                   gen_index, pokemon_id, fetched_basic, url, max_retries, attempt, upstream,
                   fetched, attempted, all_documents, submitted, optimized, run_result>>
    /\ UNCHANGED webVars

(***************************************************************************)
(* SolrIndexer.index_documents (and PokemonFetcher.index_documents, which  *)
(* is the same code).                                                      *)
(***************************************************************************)
batch_size == 50

\* a variant whose slices share a document with the next one
batch_at_overlapping(documents, i) ==
    SubSeq(documents, i + 1, Min(i + batch_size + 1, Len(documents)))

\* documents[i:i + batch_size]
batch_at(documents, i) == SubSeq(documents, i + 1, Min(i + batch_size, Len(documents)))

Elements(seq) == {seq[k] : k \in 1..Len(seq)}

\* a variant that goes on with the next batch after a failure
after_batch_failure_continues(i) == [ipc |-> "index", result |-> None, i |-> i + batch_size]

\* lines 152-154: except Exception ... return False
after_batch_failure(i) == [ipc |-> "ended", result |-> Some(FALSE), i |-> i]

\* lines 141-143: one self.solr.add(batch), logged in `submitted` with its
\* outcome; a failing add may or may not have reached the index
IndexBatch ==
    /\ ipc = "index"
    /\ batch_start < Len(all_documents)
    /\ LET batch == batch_at(all_documents, batch_start)
       IN  \E raised \in BOOLEAN, applied \in BOOLEAN :
                 /\ submitted' = Append(submitted, [batch |-> batch, raised |-> raised])
                 /\ index' = IF ~raised \/ applied
                             THEN Some(Get(index) \cup Elements(batch)) ELSE index
                 /\ IF raised
                    THEN /\ ipc' = after_batch_failure(batch_start).ipc
                         /\ run_result' = after_batch_failure(batch_start).result
                         /\ batch_start' = after_batch_failure(batch_start).i
                    ELSE /\ batch_start' = batch_start + batch_size
                         /\ UNCHANGED <<ipc, run_result>>
    /\ UNCHANGED <<program, field_index, all_successful, schema_result, cleared, gen_index,
                   pokemon_id, fetched_basic, url, max_retries, attempt, upstream, fetched,
                   attempted, all_documents, optimized>>
    /\ UNCHANGED webVars

\* lines 146-154: self.solr.optimize() and the return
Optimize ==
    /\ ipc = "index"
    /\ batch_start >= Len(all_documents)
    /\ \E raised \in BOOLEAN :
          /\ optimized' = Append(optimized, IF raised THEN "raised" ELSE "ok")
          /\ run_result' = Some(~raised)
    /\ ipc' = "ended"
    /\ UNCHANGED <<index, program, field_index, all_successful, schema_result, cleared,
                   gen_index, pokemon_id, fetched_basic, url, max_retries, attempt, upstream,
                   fetched, attempted, all_documents, batch_start, submitted>>
    /\ UNCHANGED webVars

(***************************************************************************)
(* One call of DataProcessor.process_pokemon_data.                         *)
(***************************************************************************)
\* the call returns the document, or raises the KeyError of a missing key
Normalize ==
    /\ ipc = "normalize"
    /\ IF normalizer_raises(Get(fetched_basic))
       THEN /\ ipc' = "raised"
            /\ UNCHANGED all_documents
       ELSE /\ ipc' = "returned"
            /\ all_documents' = Append(all_documents,
                                       process_pokemon_data(Get(fetched_basic),
                                                            Get(fetched).value))
    /\ UNCHANGED <<index, program, field_index, all_successful, schema_result, cleared,
                   gen_index, pokemon_id, fetched_basic, url, max_retries, attempt, upstream,
                   fetched, attempted, batch_start, submitted, optimized, run_result>>
    /\ UNCHANGED webVars

InitWith(ref_on) ==
    /\ pc = "idle"
    /\ handler = "none"
    /\ args = None
    /\ query = <<>>
    /\ start = 0
    /\ rows = 0
    /\ filters = <<>>
    /\ is_ability = FALSE
    /\ is_type = FALSE
    /\ classification = "none"
    /\ results = None
    /\ suggestions = <<>>
    /\ spellcheck_data = None
    /\ sent = <<>>
    /\ outcomes = <<>>
    /\ response = None
    /\ replies = <<>>
    /\ ref = [on |-> ref_on, seen |-> {}]

Init == InitWith(FALSE) /\ index = None /\ IngestIdle

NextSearch ==
    \/ SearchStart
    \/ CheckIfAbility
    \/ CheckIfType
    \/ MainQuery
    \/ Spellcheck
    \/ Finish

NextAutocomplete ==
    \/ AutocompleteStart
    \/ TermsLookup
    \/ NameLookup

Next == NextSearch \/ NextAutocomplete

Spec == Init /\ [][Next]_vars

InitPair == InitWith(TRUE) /\ index = None /\ IngestIdle

\* the search handler in front of an index whose documents the normalizer wrote
InitIndexed ==
    InitWith(TRUE) /\ index \in {Some(docs) : docs \in IndexStates} /\ IngestIdle

SpecIndexed == InitIndexed /\ [][NextSearch]_vars

SpecPair == InitPair /\ [][NextSearch]_vars

\* the web application at rest, as the ingestion scripts run without it
WebIdle == InitWith(FALSE)

\* one call of fetch_with_retry, for every url and every max_retries
InitFetch ==
    /\ WebIdle
    /\ index = None
    /\ program = "call"
    /\ ipc = "fetch_call"
    /\ field_index = 1
    /\ all_successful = TRUE
    /\ schema_result = None
    /\ cleared = 0
    /\ gen_index = 1
    /\ pokemon_id = 0
    /\ fetched_basic = None
    /\ url \in {Some(u) : u \in {basic_url(1), species_url(1), basic_url(152)}}
    /\ max_retries \in 0..MaxRetriesArg
    /\ attempt = 0
    /\ upstream = <<>>
    /\ fetched = None
    /\ attempted = <<>>
    /\ all_documents = <<>>
    /\ batch_start = 0
    /\ submitted = <<>>
    /\ optimized = <<>>
    /\ run_result = None

NextFetch == FetchAttempt

\* a document left in the index by an earlier run
StaleDocument == process_pokemon_data(GoodRecord(1025), None)

\* a run of one of the two scripts
InitIngest ==
    /\ WebIdle
    /\ index = Some({StaleDocument})
    /\ program \in Programs
    /\ ipc = "start"
    /\ field_index = 1
    /\ all_successful = TRUE
    /\ schema_result = None
    /\ cleared = 0
    /\ gen_index = 1
    /\ pokemon_id = 0
    /\ fetched_basic = None
    /\ url = None
    /\ max_retries = 0
    /\ attempt = 0
    /\ upstream = <<>>
    /\ fetched = None
    /\ attempted = <<>>
    /\ all_documents = <<>>
    /\ batch_start = 0
    /\ submitted = <<>>
    /\ optimized = <<>>
    /\ run_result = None

NextIngest ==
    \/ Ping
    \/ SchemaField
    \/ SchemaEnd
    \/ SchemaChecked
    \/ Clear
    \/ NextId
    \/ FetchAttempt
    \/ GotBasic
    \/ GotSpecies
    \/ PassDone
    \/ IndexBatch
    \/ Optimize

SpecIngest == InitIngest /\ [][NextIngest]_vars

\* the documents handed to one call of index_documents
DocumentLists ==
    {[k \in 1..n |-> process_pokemon_data(GoodRecord(k), None)] : n \in 0..MaxDocuments}

\* one call of index_documents, for every number of documents
InitIndexing ==
    /\ WebIdle
    /\ index = Some({StaleDocument})
    /\ program = "call"
    /\ ipc = "index"
    /\ field_index = 1
    /\ all_successful = TRUE
    /\ schema_result = None
    /\ cleared = 0
    /\ gen_index = 1
    /\ pokemon_id = 0
    /\ fetched_basic = None
    /\ url = None
    /\ max_retries = 0
    /\ attempt = 0
    /\ upstream = <<>>
    /\ fetched = None
    /\ attempted = <<>>
    /\ all_documents \in DocumentLists
    /\ batch_start = 0
    /\ submitted = <<>>
    /\ optimized = <<>>
    /\ run_result = None

NextIndexing == IndexBatch \/ Optimize

SpecIndexing == InitIndexing /\ [][NextIndexing]_vars

\* every id of every range of config.GEN_LIMITS
AllDeclaredIds ==
    UNION {GEN_LIMITS[g].start_id..GEN_LIMITS[g].end_id : g \in 1..Len(GEN_LIMITS)}

\* the body of main.py's loop (lines 49-66) for one id of GEN_LIMITS, from
\* the call of fetch_pokemon_basic_data on
InitNormalize ==
    /\ WebIdle
    /\ index = Some({})
    /\ program = "main"
    /\ ipc = "fetch_basic"
    /\ field_index = Len(IndexerFields) + 1
    /\ all_successful = TRUE
    /\ schema_result = Some(TRUE)
    /\ cleared = 1
    /\ pokemon_id \in AllDeclaredIds
    /\ gen_index = CHOOSE g \in 1..Len(GEN_LIMITS) :
                        GEN_LIMITS[g].start_id <= pokemon_id /\ pokemon_id <= GEN_LIMITS[g].end_id
    /\ fetched_basic = None
    /\ url = Some(basic_url(pokemon_id))
    /\ max_retries = DefaultMaxRetries
    /\ attempt = 0
    /\ upstream = <<>>
    /\ fetched = None
    /\ attempted = <<pokemon_id>>
    /\ all_documents = <<>>
    /\ batch_start = 0
    /\ submitted = <<>>
    /\ optimized = <<>>
    /\ run_result = None

NextNormalize == FetchAttempt \/ GotBasic \/ GotSpecies

SpecNormalize == InitNormalize /\ [][NextNormalize]_vars

SpecFetch == InitFetch /\ [][NextFetch]_vars

\* ids at the ends of the ranges of the normalizer and of GEN_LIMITS, and
\* ids outside every range
ProcessIds == {0, 1, 151, 152, 251, 252, 386, 387, 1025, 1026, 10001}

\* the characters of a flavor text: a letter, and white space of every kind
TextAlphabet == {"a", " ", "\t", "\n", "\f", "\r", VT}

Texts == StringsUpTo(TextAlphabet, MaxTextLen)

\* a species record with one English flavor text
SpeciesWithText(text) ==
    [PlainSpecies EXCEPT !.flavor_text_entries = <<[language |-> "en", flavor_text |-> text]>>]

\* the arguments of the call: every id with and without a species record,
\* and one id with every flavor text
ProcessArguments ==
    {[basic_data |-> b, species_data |-> sp] :
        b \in UNION {{GoodRecord(id), NamelessRecord(id)} : id \in ProcessIds},
        sp \in {None, SomeSpecies}}
    \cup {[basic_data |-> GoodRecord(1), species_data |-> Some(SpeciesWithText(t))] :
            t \in Texts}

\* one call of process_pokemon_data, for every pair of arguments
InitProcess ==
    /\ WebIdle
    /\ index = None
    /\ program = "call"
    /\ ipc = "normalize"
    /\ field_index = 1
    /\ all_successful = TRUE
    /\ schema_result = None
    /\ cleared = 0
    /\ gen_index = 1
    /\ pokemon_id = 0
    /\ \E arguments \in ProcessArguments :
          /\ fetched_basic = Some(arguments.basic_data)
          /\ fetched = Returned(arguments.species_data)
    /\ url = None
    /\ max_retries = 0
    /\ attempt = 0
    /\ upstream = <<>>
    /\ attempted = <<>>
    /\ all_documents = <<>>
    /\ batch_start = 0
    /\ submitted = <<>>
    /\ optimized = <<>>
    /\ run_result = None

NextProcess == Normalize

SpecProcess == InitProcess /\ [][NextProcess]_vars

(***************************************************************************)
(* What the claims speak of, read off the state.                           *)
(***************************************************************************)
\* the q argument as the caller sent it ('' when absent)
RawQuery == ArgOr(Get(args).q, <<>>)

Blank(s) == \A i \in 1..Len(s) : IsSpace(s[i])

Serving(h) == handler = h /\ pc # "idle"

\* a request of the given kind was sent and the index answered it with `outcome`
Answered(kind, outcome) ==
    \E i \in 1..Len(sent) : sent[i].kind = kind /\ outcomes[i] = outcome

WasSent(kind) == \E i \in 1..Len(sent) : sent[i].kind = kind

Position(kind) == CHOOSE i \in 1..Len(sent) : sent[i].kind = kind

IsFailureEnvelope(r) ==
    /\ DOMAIN r = {"success", "status", "error", "total", "results"}
    /\ r.success = FALSE
    /\ r.error # ""
    /\ r.total = 0
    /\ r.results = <<>>

(***************************************************************************)
(* C1: for every non-empty, non-match-all query and every pair of probe    *)
(* outcomes the handler classifies in strict precedence: ability-like if   *)
(* the ability probe is positive; otherwise type-like if the type probe is *)
(* positive; otherwise short-wildcard if the token has length <= 3 or      *)
(* contains no whitespace; otherwise free-text, the query passed through   *)
(* unchanged; and the main query has the shape of that class.  The token   *)
(* is read either way, for the test and for the clauses built: the query   *)
(* as sent, or the query trimmed.                                          *)
(***************************************************************************)
ClaimedClass(token) ==
    IF Answered("ability_probe", "hit") THEN "ability-like"
    ELSE IF Answered("type_probe", "hit") THEN "type-like"
    ELSE IF Len(token) <= 3 \/ \A i \in 1..Len(token) : ~IsSpace(token[i])
    THEN "short-wildcard"
    ELSE "free-text"

ClaimedShape(class, token) ==
    CASE class = "ability-like" -> ability_query(token)
      [] class = "type-like" -> type_query(token)
      [] class = "short-wildcard" -> wildcard_query(token)
      [] OTHER -> RawQuery

C1_ClassificationPrecedence ==
    (Serving("search") /\ HasMain /\ ~Blank(RawQuery) /\ RawQuery # MatchAll) =>
        \E token \in {RawQuery, str_strip(RawQuery)} :
            /\ classification = ClaimedClass(token)
            /\ \E placed \in {RawQuery, str_strip(RawQuery)} :
                  Main.params.q = ClaimedShape(ClaimedClass(token), placed)

C3_ProbeFailureIsNegative ==
    (Serving("search")
     /\ (Answered("ability_probe", "error") \/ Answered("type_probe", "error"))) =>
        /\ Answered("ability_probe", "error") => ~is_ability
        /\ Answered("type_probe", "error") => ~is_type
        /\ HasMain =>
              classification =
                  IF Answered("ability_probe", "hit") THEN "ability-like"
                  ELSE IF Answered("type_probe", "hit") THEN "type-like"
                  ELSE IF Len(query) <= 3 \/ ~HasChar(query, " ") THEN "short-wildcard"
                  ELSE "free-text"
        /\ pc = "done" =>
              /\ HasMain
              /\ response # None
              /\ ~Get(response).success =>
                    \/ Answered("main", "error")
                    \/ \E f \in SpellFailures : Answered("spellcheck", f)

C3_Witness ==
    /\ Serving("search")
    /\ pc = "done"
    /\ Answered("ability_probe", "error")
    /\ Answered("type_probe", "hit")
    /\ classification = "type-like"
    /\ Get(response).success

(***************************************************************************)
(* C4: a search whose q is absent, empty or whitespace-only sends exactly  *)
(* the engine requests of a search with the explicit match-all query and   *)
(* the same other arguments: one main query with q = *:*, no               *)
(* classification probe, no relevance parameters, no spellcheck lookup     *)
(* (and nothing at all when start or rows does not parse).                 *)
(***************************************************************************)
C4_BlankIsMatchAll ==
    (Serving("search") /\ pc = "done" /\ Blank(RawQuery)) =>
        /\ Len(sent) = IF page_parses(Get(args)) THEN 1 ELSE 0
        /\ \A i \in 1..Len(sent) :
              /\ sent[i].kind = "main"
              /\ sent[i].params.q = MatchAll
              /\ sent[i].params.relevance = None
        /\ \A r \in ref.seen :
              r.args = [Get(args) EXCEPT !.q = Some(MatchAll)] => sent = r.sent

C4_Witness ==
    /\ Serving("search")
    /\ pc = "done"
    /\ Get(args).q = Some(<<" ", "\t">>)
    /\ Get(args).type # None
    /\ \E r \in ref.seen : r.args = [Get(args) EXCEPT !.q = Some(MatchAll)] /\ sent = r.sent

(***************************************************************************)
(* C5: filters and the main query do not interfere.  Two requests with the *)
(* same q and the same probe outcomes send the same main query string and  *)
(* relevance parameters whatever their filters; two requests with the same *)
(* filter values send the same filter list whatever their q; and the list  *)
(* has one entry per non-empty filter.                                     *)
(***************************************************************************)
FilterArgs(a) ==
    [generation |-> a.generation, type |-> a.type, ability |-> a.ability,
     legendary |-> a.legendary]

C5_FiltersIndependent ==
    (Serving("search") /\ HasMain) =>
        /\ \A r \in ref.seen :
              /\ (r.args.q = Get(args).q /\ r.probes = ProbeOutcomes) =>
                    /\ r.main.params.q = Main.params.q
                    /\ r.main.params.relevance = Main.params.relevance
              /\ FilterArgs(r.args) = FilterArgs(Get(args)) =>
                    r.main.params.fq = Main.params.fq
        /\ LET given == {f \in {"generation", "type", "ability", "legendary"} :
                            FilterArgs(Get(args))[f] \notin {None, Some(<<>>)}}
           IN  IF given = {} THEN Main.params.fq = None
               ELSE Main.params.fq # None /\ Len(Get(Main.params.fq)) = Cardinality(given)

C5_Witness ==
    /\ Serving("search")
    /\ HasMain
    /\ \E r \in ref.seen :
          /\ r.args.q = Get(args).q
          /\ r.probes = ProbeOutcomes
          /\ classification = "type-like"
          /\ FilterArgs(r.args) # FilterArgs(Get(args))
          /\ r.main.params.fq # Main.params.fq
          /\ r.main.params.q = Main.params.q
    /\ Main.params.fq # None

(***************************************************************************)
(* C6: the legendary filter.  The values true, 1 and yes in any letter     *)
(* case give the clause (is legendary OR is mythical); every other         *)
(* non-empty value gives the complementary clause; an absent or empty      *)
(* value gives no legendary clause.                                        *)
(***************************************************************************)
IsLegendary == <<"(is_legendary:true OR is_mythical:true)">>
IsNeither == <<"(is_legendary:false AND is_mythical:false)">>

Sent(fq, clause) == fq # None /\ InSeq(clause, Get(fq))

C6_LegendaryClause ==
    (Serving("search") /\ HasMain) =>
        LET l == Get(args).legendary
            fq == Main.params.fq
        IN  IF l \in {None, Some(<<>>)}
            THEN ~Sent(fq, IsLegendary) /\ ~Sent(fq, IsNeither)
            ELSE IF \E w \in TrueLike : Get(l) \in CaseVariants(w)
            THEN Sent(fq, IsLegendary) /\ ~Sent(fq, IsNeither)
            ELSE Sent(fq, IsNeither) /\ ~Sent(fq, IsLegendary)

C6_Witness ==
    /\ Serving("search")
    /\ HasMain
    /\ Get(args).legendary = Some(<<"Y", "E", "s">>)
    /\ Sent(Main.params.fq, IsLegendary)

(***************************************************************************)
(* C7: if the main query fails, or start or rows does not parse, or any    *)
(* other exception occurs, the handler returns a failure envelope: success *)
(* false, an error message, total 0, no results.  Every request ends with  *)
(* a response: no exception escapes.                                       *)
(***************************************************************************)
Unparsable(o) == o # None /\ (Get(o) = <<>> \/ \E i \in 1..Len(Get(o)) : Get(o)[i] = "x")

C7_FailureEnvelope ==
    (Serving("search") /\ pc = "done") =>
        /\ response # None
        /\ (\/ Answered("main", "error")
            \/ Unparsable(Get(args).start)
            \/ Unparsable(Get(args).rows)
            \/ Answered("spellcheck", "bad_shape")
            \/ Answered("spellcheck", "json_value_error")) =>
              IsFailureEnvelope(Get(response))
        /\ ~Get(response).success => IsFailureEnvelope(Get(response))

C7_Witness ==
    /\ Serving("search")
    /\ pc = "done"
    /\ Answered("main", "error")
    /\ IsFailureEnvelope(Get(response))

(***************************************************************************)
(* C8: in a search request whose main query succeeded, a failure of the    *)
(* spellcheck lookup of any kind (transport error, non-2xx status, a body  *)
(* of unexpected shape) contributes only empty spellcheck output: the      *)
(* response has success true and the main query's total, results, facets.  *)
(***************************************************************************)
C8_SpellcheckFailureIsEmpty ==
    (/\ Serving("search")
     /\ pc = "done"
     /\ Answered("main", "ok")
     /\ \E f \in SpellFailures : Answered("spellcheck", f)) =>
        /\ response # None
        /\ Get(response).success
        /\ Get(response).total = Get(results).hits
        /\ Get(response).results = Get(results).docs
        /\ Get(response).facets = format_facets(Get(results).facets)
        /\ Get(response).spellcheck = [suggestions |-> <<>>, collated |-> None]

(***************************************************************************)
(* C9 as stated: for every collation list the spellcheck lookup returns,   *)
(* the collated correction reported is the second element when the list    *)
(* has at least two elements, else the first element when exactly one is   *)
(* present, and absent when the list is empty.                             *)
(***************************************************************************)
Collated == Get(response).spellcheck.collated

C9_SecondElseFirst ==
    (/\ Serving("search")
     /\ pc = "done"
     /\ spellcheck_data # None
     /\ Get(spellcheck_data).has_spellcheck) =>
        LET c == Get(spellcheck_data).collations
        IN  Collated = IF Len(c) >= 2 THEN Some(c[2].text)
                       ELSE IF Len(c) = 1 THEN Some(c[1].text)
                       ELSE None

(***************************************************************************)
(* C9 as amended: when the lookup returned a non-empty per-token           *)
(* suggestions list, the collated correction reported is the second        *)
(* element of the collation list when the list has at least two elements   *)
(* and the second is a string; else the first element when there is one    *)
(* and it is a string; else absent.  With an empty or missing suggestions  *)
(* list it is absent.                                                      *)
(***************************************************************************)
C9_SecondStringElseFirstString ==
    (Serving("search") /\ pc = "done" /\ spellcheck_data # None) =>
        LET d == Get(spellcheck_data)
            c == d.collations
        IN  Collated =
                IF ~d.has_spellcheck \/ d.suggestions = <<>> THEN None
                ELSE IF Len(c) >= 2 /\ c[2].is_str THEN Some(c[2].text)
                ELSE IF Len(c) >= 1 /\ c[1].is_str THEN Some(c[1].text)
                ELSE None

C9_Witness ==
    /\ Serving("search")
    /\ pc = "done"
    /\ spellcheck_data # None
    /\ Get(spellcheck_data).suggestions # <<>>
    /\ Get(spellcheck_data).collations = <<Str("collation"), NotStr>>
    /\ Collated = Some("collation")

(***************************************************************************)
(* C10: an autocomplete request whose trimmed query has fewer than 2       *)
(* characters returns success with an empty suggestion list and sends no   *)
(* request to the index.                                                   *)
(***************************************************************************)
C10_ShortAutocomplete ==
    (Serving("autocomplete") /\ Len(str_strip(RawQuery)) < 2) =>
        /\ pc = "done"
        /\ sent = <<>>
        /\ response = Some([success |-> TRUE, status |-> 200, suggestions |-> <<>>])

C10_Witness ==
    /\ Serving("autocomplete")
    /\ pc = "done"
    /\ Len(RawQuery) = 3
    /\ Len(str_strip(RawQuery)) = 1
    /\ sent = <<>>
    /\ Get(response).success

(***************************************************************************)
(* C11: whatever the two lookups answer, the suggestion list returned is   *)
(* the first 8 entries of the duplicate-free concatenation (first          *)
(* occurrence kept) of the term matches, then the names that start with    *)
(* the query, then the names that contain it elsewhere; so it has at most  *)
(* 8 entries, repeats none, and no name substring match stands before a    *)
(* name prefix match or a term match.  A lookup whose failure is swallowed *)
(* counts as having found nothing.                                         *)
(***************************************************************************)
LookedUp(kind) == \E i \in 1..Len(sent) : sent[i].kind = kind
LookupReply(kind) == replies[CHOOSE i \in 1..Len(sent) : sent[i].kind = kind]

RECURSIVE Flatten(_)
Flatten(lists) == IF lists = <<>> THEN <<>> ELSE Head(lists) \o Flatten(Tail(lists))

\* the terms of one field: its flat list without the counts
TermsOfField(terms_list) == [k \in 1..((Len(terms_list) + 1) \div 2) |-> terms_list[2 * k - 1]]

TermsFound ==
    IF LookedUp("terms") /\ LookupReply("terms").status = "ok"
    THEN Flatten([f \in 1..Len(LookupReply("terms").fields) |->
                    TermsOfField(LookupReply("terms").fields[f])])
    ELSE <<>>

NamesFound ==
    IF LookedUp("names") /\ LookupReply("names").status = "ok"
    THEN LookupReply("names").docs
    ELSE <<>>

StartsWithQuery(s) == str_startswith(str_lower(s), str_lower(query))
ContainsElsewhere(s) == str_contains(str_lower(s), str_lower(query)) /\ ~StartsWithQuery(s)

TermMatches == SelectSeq(TermsFound, StartsWithQuery)
NamePrefixMatches == SelectSeq(NamesFound, StartsWithQuery)
NameSubstringMatches == SelectSeq(NamesFound, ContainsElsewhere)

RECURSIVE FirstOccurrences(_)
FirstOccurrences(s) ==
    IF s = <<>> THEN <<>>
    ELSE LET front == SubSeq(s, 1, Len(s) - 1)
             last == s[Len(s)]
         IN  IF InSeq(last, front) THEN FirstOccurrences(front)
             ELSE Append(FirstOccurrences(front), last)

AllMatches == TermMatches \o NamePrefixMatches \o NameSubstringMatches

ExpectedSuggestions ==
    SubSeq(FirstOccurrences(AllMatches), 1, Min(Len(FirstOccurrences(AllMatches)), 8))

\* both lookups were made and neither failed in a way the handler does not swallow
LookupsSettled ==
    /\ Serving("autocomplete") /\ pc = "done" /\ Len(replies) = 2
    /\ \A i \in 1..2 : replies[i].status = "ok" \/ lookup_caught(replies[i].status)

C11_SuggestionList ==
    LookupsSettled =>
        LET list == Get(response).suggestions
        IN  /\ list = ExpectedSuggestions
            /\ Len(list) <= 8
            /\ \A i, j \in 1..Len(list) : i # j => list[i] # list[j]
            /\ \A i, j \in 1..Len(list) :
                  (i < j /\ InSeq(list[i], NameSubstringMatches))
                      => ~(InSeq(list[j], NamePrefixMatches) \/ InSeq(list[j], TermMatches))

\* more than 8 distinct matches, one of them found by both lookups
C11_Witness ==
    /\ LookupsSettled
    /\ Len(FirstOccurrences(AllMatches)) > 8
    /\ \E i \in 1..Len(TermMatches) : InSeq(TermMatches[i], NamePrefixMatches)
    /\ Len(Get(response).suggestions) = 8

(***************************************************************************)
(* C12: the two lookups of an autocomplete request fail independently: if  *)
(* the terms lookup fails, the name search is still made and the response  *)
(* has success true and holds the name matches; if the name search fails,  *)
(* the response has success true and holds the term matches; if both fail, *)
(* the response has success true and an empty list.                        *)
(***************************************************************************)
LookupFailed(kind) == LookedUp(kind) /\ LookupReply(kind).status # "ok"

C12_LookupsFailIndependently ==
    (Serving("autocomplete") /\ pc = "done"
        /\ (LookupFailed("terms") \/ LookupFailed("names"))) =>
        /\ LookedUp("terms") /\ LookedUp("names")
        /\ Get(response).success = TRUE
        /\ Get(response).suggestions = ExpectedSuggestions
        /\ (LookupFailed("terms") /\ LookupFailed("names")) => Get(response).suggestions = <<>>

(***************************************************************************)
(* C13: once a document normalized from a record that lists type t is in   *)
(* the index, a search whose q is t in any letter case is detected as a    *)
(* type: the type probe is positive and, the ability probe being negative, *)
(* the request is classified type-like.                                    *)
(***************************************************************************)
SameLetters(a, b) == str_lower(a) = str_lower(b)

\* q is, letter case aside, a type listed by a document of the index
QueryIsIndexedType ==
    \E d \in Get(index) : \E i \in 1..Len(d.types) : SameLetters(RawQuery, d.types[i])

C13_IndexedTypeDetected ==
    (Serving("search") /\ index # None /\ HasMain /\ QueryIsIndexedType
        /\ Answered("ability_probe", "miss") /\ ~Answered("type_probe", "error")) =>
        /\ Answered("type_probe", "hit")
        /\ classification = "type-like"

(***************************************************************************)
(* C14: when the index holds a document X whose abilities include the name *)
(* A as the normalizer stores it, a search whose q is A in lower case is   *)
(* classified ability-like and its main query contains the exact clause    *)
(* all_abilities:"A", which matches X; and a repetition of the request      *)
(* against the same index is classified the same and sends the same query. *)
(***************************************************************************)
\* the documents whose abilities include A, for the A whose lower case is q
HoldersOfQueriedAbility ==
    {d \in Get(index) : \E i \in 1..Len(d.all_abilities) :
                            RawQuery = str_lower(d.all_abilities[i])}

\* s contains the clause as a contiguous part
HasClause(s, clause) ==
    \E i \in 0..(Len(s) - Len(clause)) : SubSeq(s, i + 1, i + Len(clause)) = clause

\* the clause all_abilities:"A" as line 127 writes it, between the pieces of
\* the f-string that end with the opening and begin with the closing quote
ExactAbilityClause(A) ==
    <<"* OR all_abilities:\"">> \o A \o <<"\" OR all_abilities:*">>

Repeated ==
    /\ ref.seen # {}
    /\ (Get(ref.seen)).args = Get(args)
    /\ \A i \in 1..Len((Get(ref.seen)).probes) : (Get(ref.seen)).probes[i] # "error"

C14_IndexedAbilityClassified ==
    (Serving("search") /\ index # None /\ HasMain /\ HoldersOfQueriedAbility # {}
        /\ ~Answered("ability_probe", "error")) =>
        /\ classification = "ability-like"
        /\ \A X \in HoldersOfQueriedAbility :
              \E i \in 1..Len(X.all_abilities) :
                  /\ RawQuery = str_lower(X.all_abilities[i])
                  /\ HasClause(Main.params.q, ExactAbilityClause(X.all_abilities[i]))
        /\ Repeated =>
              /\ (Get(ref.seen)).main = Main
              /\ (Get(ref.seen)).probes[1] = "hit"

\* the request for the hidden ability 'Solar Power', made a second time
C14_Witness ==
    /\ Serving("search") /\ index # None /\ HasMain
    /\ RawQuery = <<"s", "o", "l", "a", "r", " ", "p", "o", "w", "e", "r">>
    /\ HoldersOfQueriedAbility # {}
    /\ Answered("ability_probe", "hit")
    /\ classification = "ability-like"
    /\ Repeated

(***************************************************************************)
(* C15: whatever the upstream answers, fetch_with_retry issues at most     *)
(* max_retries GETs, stops at the first successful one and returns its     *)
(* payload, and after max_retries failures in a row (a transport failure   *)
(* or a body that is not JSON) returns None; it never raises.              *)
(***************************************************************************)
FetchEnded == ipc \in {"fetch_call", "fetch_basic", "fetch_species"} /\ fetched # None

AllFailed(log) == \A i \in 1..Len(log) : log[i] # "ok"

ids_of(range) == [k \in 1..(range.end_id - range.start_id + 1) |-> range.start_id + k - 1]

RECURSIVE ids_of_ranges(_, _)
ids_of_ranges(ranges, g) ==
    IF g > Len(ranges) THEN <<>> ELSE ids_of(ranges[g]) \o ids_of_ranges(ranges, g + 1)

DeclaredIds == ids_of_ranges(declared_ranges(program), 1)

InRun == program \in Programs

\* index_documents has been called
PastPass == InRun /\ (ipc = "index" \/ (ipc = "ended" /\ (submitted # <<>> \/ optimized # <<>>)))

FailsOnThisId ==
    /\ InRun
    /\ fetched # None
    /\ \/ ipc = "fetch_basic" /\ (Get(fetched).raised \/ falsy(Get(fetched).value))
       \/ ipc = "fetch_species"
          /\ (Get(fetched).raised \/ normalizer_raises(Get(fetched_basic)))

AttemptedInOrder ==
    InRun =>
        /\ Len(attempted) <= Len(DeclaredIds)
        /\ attempted = SubSeq(DeclaredIds, 1, Len(attempted))
        /\ (PastPass => attempted = DeclaredIds)
        /\ \A k \in 1..Len(all_documents) :
              \E a \in 1..Len(attempted) : attempted[a] = all_documents[k].pokemon_id

C16_FailedIdSkipped ==
    /\ []AttemptedInOrder
    /\ [][FailsOnThisId => /\ all_documents' = all_documents
                            /\ attempted' = attempted
                            /\ ipc' = "pass"]_vars

\* the first id failed, the last id gave a document, the pass is over
C16_Witness ==
    /\ PastPass
    /\ attempted = DeclaredIds
    /\ Len(attempted) > 1
    /\ all_documents # <<>>
    /\ \A k \in 1..Len(all_documents) : all_documents[k].pokemon_id # attempted[1]
    /\ all_documents[Len(all_documents)].pokemon_id = attempted[Len(attempted)]

(***************************************************************************)
(* C17: in index_documents, once the add of batch k has failed, batch k is *)
(* the last one submitted, optimize is not called, the documents of the    *)
(* batches before k are in the index and the result is False; the result   *)
(* is True only when every batch of the documents was submitted without a  *)
(* failure and optimize was called and did not fail.                       *)
(***************************************************************************)
FailedAt(k) == k \in 1..Len(submitted) /\ submitted[k].raised

RECURSIVE documents_of(_, _)
documents_of(adds, k) ==
    IF k > Len(adds) THEN <<>> ELSE adds[k].batch \o documents_of(adds, k + 1)

C17_BatchFailureAborts ==
    /\ \A k \in 1..Len(submitted) :
          /\ submitted[k].batch = batch_at(all_documents, (k - 1) * batch_size)
          /\ FailedAt(k) =>
                /\ Len(submitted) = k
                /\ optimized = <<>>
                /\ run_result = Some(FALSE)
                /\ \A j \in 1..(k - 1) : Elements(submitted[j].batch) \subseteq Get(index)
    /\ run_result = Some(TRUE) =>
          /\ optimized = <<"ok">>
          /\ documents_of(submitted, 1) = all_documents
          /\ \A k \in 1..Len(submitted) : ~FailedAt(k)
          /\ Elements(all_documents) \subseteq Get(index)

\* the second of three batches failed
C17_Witness ==
    /\ program = "call"
    /\ Len(all_documents) > 2 * batch_size
    /\ Len(submitted) = 2
    /\ FailedAt(2)
    /\ ipc = "ended"
    /\ Elements(submitted[1].batch) \subseteq Get(index)
    /\ ~(Elements(submitted[2].batch) \subseteq Get(index))

(***************************************************************************)
(* C18: in setup_solr_schema, once a field has failed (its outcome is      *)
(* neither a success nor the tolerated 'already exists' / 'not present,    *)
(* then added'), no further field is attempted, and the result reported    *)
(* is False.                                                               *)
(***************************************************************************)
FieldFailed == InRun /\ (~all_successful \/ schema_result = Some(FALSE))

C18_FieldFailureAborts ==
    /\ [](FieldFailed /\ schema_result # None => schema_result = Some(FALSE))
    /\ [][FieldFailed => field_index' = field_index]_vars

(***************************************************************************)
(* C19: when setup_solr_schema has returned False, the run has not cleared *)
(* the index, has fetched nothing from the upstream provider and has       *)
(* submitted no documents, and it never will.                              *)
(***************************************************************************)
C19_SchemaFailureIsFatal ==
    InRun /\ schema_result = Some(FALSE) =>
        /\ cleared = 0
        /\ index = Some({StaleDocument})
        /\ attempted = <<>>
        /\ url = None
        /\ upstream = <<>>
        /\ all_documents = <<>>
        /\ submitted = <<>>
        /\ optimized = <<>>
        /\ ipc \in {"schema_done", "ended"}

\* the run of src/fetcher_v2.py is over after a schema pass that went through
\* every field and reported failure
C19_Witness ==
    /\ program = "fetcher_v2"
    /\ schema_result = Some(FALSE)
    /\ field_index > Len(FetcherFields)
    /\ ipc = "ended"

(***************************************************************************)
(* C20: the ranges of GEN_LIMITS are ascending and do not overlap, and a   *)
(* document whose id lies in a range carries, when it carries a generation *)
(* at all, the generation of that range.                                   *)
(***************************************************************************)
RangesAscending ==
    \A g \in 1..Len(GEN_LIMITS) :
        /\ GEN_LIMITS[g].start_id <= GEN_LIMITS[g].end_id
        /\ g > 1 => GEN_LIMITS[g - 1].end_id < GEN_LIMITS[g].start_id

InRange(id, range) == range.start_id <= id /\ id <= range.end_id

C20_GenerationIsRangeBucket ==
    /\ RangesAscending
    /\ \A k \in 1..Len(all_documents), g \in 1..Len(GEN_LIMITS) :
          (InRange(all_documents[k].pokemon_id, GEN_LIMITS[g])
           /\ all_documents[k].generation # None)
          => all_documents[k].generation = Some(GEN_LIMITS[g].gen)

(***************************************************************************)
(* C21: a record whose id lies in no range of GEN_LIMITS is never turned   *)
(* into a document that carries a generation: the normalizer raises for it *)
(* instead of falling back on a default.                                   *)
(***************************************************************************)
InSomeRange(id) == \E g \in 1..Len(GEN_LIMITS) : InRange(id, GEN_LIMITS[g])

C21_UnmappedIdIsAnError ==
    \A k \in 1..Len(all_documents) :
        all_documents[k].generation # None => InSomeRange(all_documents[k].pokemon_id)

(***************************************************************************)
(* C22: the rows value of the main query of a search request, and the rows *)
(* value of its successful response, are the same and at most 100; they    *)
(* are 20 when the request has no rows argument; and the sort sent is      *)
(* 'pokemon_id asc' when the request names neither a sort field nor an     *)
(* order.                                                                  *)
(***************************************************************************)
Succeeded == Serving("search") /\ response # None /\ Get(response).success

RawFacets == Get(results).facets

C23_FacetPairs ==
    Succeeded =>
        LET formatted == Get(response).facets
        IN  /\ DOMAIN formatted =
                  {f \in DOMAIN RawFacets : RawFacets[f].is_list /\ f[Len(f)] # "_facet"}
            /\ \A f \in DOMAIN formatted :
                  LET values == RawFacets[f].items
                  IN  /\ Len(formatted[f]) = Len(values) \div 2
                      /\ \A k \in 1..Len(formatted[f]) :
                            /\ formatted[f][k].value = values[2 * k - 1]
                            /\ formatted[f][k].count = values[2 * k]

\* the engine's facets held a list of odd length, an internal field and a
\* value that is not a list
C23_Witness ==
    /\ Succeeded
    /\ \E f \in DOMAIN RawFacets : RawFacets[f].is_list /\ Len(RawFacets[f].items) % 2 = 1
                                    /\ f \in DOMAIN Get(response).facets
    /\ \E f \in DOMAIN RawFacets : f[Len(f)] = "_facet"
    /\ \E f \in DOMAIN RawFacets : ~RawFacets[f].is_list
    /\ DOMAIN Get(response).facets # {}

(***************************************************************************)
(* C24: a successful search response carries in `query` the q argument as  *)
(* the caller wrote it (the empty string when there was none), and in      *)
(* `filters` the four filter arguments as the caller wrote them, absent    *)
(* ones as absent.                                                         *)
(***************************************************************************)
C24_QueryAndFiltersEchoed ==
    Succeeded =>
        /\ Get(response).query = RawQuery
        /\ Get(response).filters = [generation |-> Get(args).generation,
                                    type |-> Get(args).type,
                                    ability |-> Get(args).ability,
                                    legendary |-> Get(args).legendary]

(***************************************************************************)
(* C25: as long as no add has failed in index_documents, the batches       *)
(* submitted so far, put end to end, are the first documents of the input  *)
(* in their order; every batch has at most 50 documents and every batch    *)
(* but the last exactly 50; optimize is called at most once, only after    *)
(* all documents were submitted, and it has been called when the           *)
(* operation is over.                                                      *)
(***************************************************************************)
NoAddFailed == \A k \in 1..Len(submitted) : ~FailedAt(k)

C25_BatchesPartitionInput ==
    NoAddFailed =>
        LET sent_documents == documents_of(submitted, 1)
        IN  /\ Len(sent_documents) <= Len(all_documents)
            /\ sent_documents = SubSeq(all_documents, 1, Len(sent_documents))
            /\ \A k \in 1..Len(submitted) :
                  /\ Len(submitted[k].batch) <= 50
                  /\ Len(submitted[k].batch) >= 1
                  /\ k < Len(submitted) => Len(submitted[k].batch) = 50
            /\ Len(submitted) * 50 < Len(all_documents) + 50
            /\ Len(optimized) <= 1
            /\ optimized # <<>> => sent_documents = all_documents
            /\ ipc = "ended" => Len(optimized) = 1

\* 101 documents went in as batches of 50, 50 and 1, then optimize ran
C25_Witness ==
    /\ program = "call"
    /\ ipc = "ended"
    /\ NoAddFailed
    /\ Len(all_documents) = 2 * 50 + 1
    /\ Len(submitted) = 3
    /\ Len(submitted[3].batch) = 1
    /\ optimized = <<"ok">>
    /\ run_result = Some(TRUE)

(***************************************************************************)
(* C26: a text that clean_text has returned is left as it is by a second   *)
(* clean_text, holds no tab, newline, carriage return or form feed, no two *)
(* spaces in a row, and neither starts nor ends with a space.              *)
(***************************************************************************)
\* the flavor text handed to the call, when the species record has one entry
GivenText == Get(Get(fetched).value).flavor_text_entries[1].flavor_text

IsClean(text) ==
    /\ \A i \in 1..Len(text) : text[i] \notin {"\t", "\n", "\r", "\f"}
    /\ \A i \in 1..(Len(text) - 1) : ~(text[i] = " " /\ text[i + 1] = " ")
    /\ text # <<>> => (text[1] # " " /\ text[Len(text)] # " ")

C26_CleanTextIdempotent ==
    \A k \in 1..Len(all_documents) :
        LET flavor_text == all_documents[k].flavor_text
        IN  flavor_text # None =>
                /\ clean_text(Get(flavor_text)) = Get(flavor_text)
                /\ IsClean(Get(flavor_text))

\* a text with a run of mixed white space inside and white space at an end
C26_Witness ==
    /\ ipc = "returned"
    /\ Get(fetched).value # None
    /\ Len(Get(Get(fetched).value).flavor_text_entries) = 1
    /\ GivenText \in {<<"a", "\n", "\t", "a">>, <<"\f", "a", " ">>, <<"a", " ", " ", "a">>}
    /\ all_documents[1].flavor_text \in {Some(<<"a", " ", "a">>), Some(<<"a">>)}

(***************************************************************************)
(* C27: when the main query of a search request is ability-like, type-like *)
(* or short-wildcard, its clauses are the ones built from the trimmed q,   *)
(* the token the probes were asked about.                                  *)
(***************************************************************************)
StructuredClasses == {"ability-like", "type-like", "short-wildcard"}

C27_ClausesUseTrimmedToken ==
    (Serving("search") /\ HasMain /\ classification \in StructuredClasses) =>
        Main.params.q = enhanced_query(str_strip(RawQuery), classification)

(***************************************************************************)
(* C28: a search response reports a collated correction only when the      *)
(* spellcheck lookup answered with a suggestions list that is not empty.   *)
(***************************************************************************)
C28_CollationNeedsSuggestions ==
    (Succeeded /\ Collated # None) =>
        /\ spellcheck_data # None
        /\ Get(spellcheck_data).has_spellcheck
        /\ Get(spellcheck_data).suggestions # <<>>

\* the engine offered a collation next to an empty suggestions list
C28_Witness ==
    /\ Succeeded
    /\ spellcheck_data # None
    /\ Get(spellcheck_data).has_spellcheck
    /\ Get(spellcheck_data).suggestions = <<>>
    /\ Get(spellcheck_data).collations # <<>>
    /\ Get(spellcheck_data).collations[1].is_str
    /\ Collated = None

(***************************************************************************)
(* C29: when the species fetch of an id comes back without an error, a     *)
(* document for that id is appended; when it came back with no record the  *)
(* document has none of the species fields (generation, color, habitat,    *)
(* is_legendary, is_mythical, flavor_text, evolves_from), and it has a     *)
(* generation exactly when there was a species record; and a run that      *)
(* ends in success has submitted every document it built.                  *)
(***************************************************************************)
SpeciesBack == InRun /\ ipc = "fetch_species" /\ fetched # None /\ ~FailsOnThisId

HasNoSpeciesField(doc) ==
    /\ doc.generation = None
    /\ doc.color = None
    /\ doc.habitat = None
    /\ doc.is_legendary = None
    /\ doc.is_mythical = None
    /\ doc.flavor_text = None
    /\ doc.evolves_from = None

C29_DocumentWithoutSpecies ==
    /\ [][SpeciesBack =>
            /\ Len(all_documents') = Len(all_documents) + 1
            /\ LET doc == all_documents'[Len(all_documents')]
               IN  /\ doc.pokemon_id = pokemon_id
                   /\ Get(fetched).value = None => HasNoSpeciesField(doc)
                   /\ doc.generation # None <=> Get(fetched).value # None]_vars
    /\ []((InRun /\ ipc = "ended" /\ run_result = Some(TRUE))
            => documents_of(submitted, 1) = all_documents)

\* a document without species fields was submitted next to one with them
C29_Witness ==
    /\ InRun
    /\ ipc = "ended"
    /\ run_result = Some(TRUE)
    /\ \E k \in 1..Len(submitted) :
          /\ \E d \in 1..Len(submitted[k].batch) : HasNoSpeciesField(submitted[k].batch[d])
          /\ \E d \in 1..Len(submitted[k].batch) : submitted[k].batch[d].generation # None

====
